---- MODULE Spec2Model ----
(***************************************************************************)
(* Ingestion pipeline of teamoptix-insight: the commit-ontrac route (batch *)
(* upsert, row extraction, chunked insert, manifest, rule pinning, status  *)
(* flip), the undo stage, the region-techs reader and the client pipeline  *)
(* with its validation gate.                                               *)
(***************************************************************************)
EXTENDS Bags, FiniteSets, Integers, Sequences, TLC

(* ---------------------------- bounds ----------------------------------- *)
\* concurrent Commit request handlers
MaxProcs == 2
\* upload sets that exist in storage or are named by a request
MaxUploadSets == 2
\* Commit invocations started in one behaviour
MaxCommits == 2
\* failures injected by the store or the storage service in one behaviour
MaxFaults == 1
\* rows of one insert chunk (the route uses 500; scaled so that one commit
\* needs more than one chunk)
ChunkSize == 2

\* rubric versions an admin leaves in the table, and the latest settings
\* timestamp, in the runs where the rule tables are edited
MaxVersions == 2
MaxSettingsAt == MaxVersions + 1

Procs == 1..MaxProcs
UploadSets == 1..MaxUploadSets

\* fiscal month anchors, as month ordinals; NoAnchor is the empty string of
\* a request without fiscal_month_anchor
Months == 1..3
NoAnchor == 0
\* an anchor text that is not a YYYY-MM-21 date, such as "2025-1-21"
BadAnchor == NoAnchor - 1
\* "no row" for ids
NoId == 0

Min(a, b) == IF a < b THEN a ELSE b

(* --------------------------- storage ----------------------------------- *)
\* One uploaded object: name, whether the name ends in .xlsx, whether
\* ExcelJS can load it, whether some sheet's row 2 matches the expected
\* headers, the region found in row 1 ("" when none), and the data rows from
\* row 3 on: each row is [tech_id, footer, regionField].
DataRow(t) == [tech_id |-> t, footer |-> FALSE, regionField |-> ""]
FooterRow == [tech_id |-> "", footer |-> TRUE, regionField |-> ""]

XlsxFile(n, reg, rs) ==
  [name |-> n, xlsx |-> TRUE, loadable |-> TRUE, headerMatch |-> TRUE,
   row1Region |-> reg, rows |-> rs]

\* an upload set, outside UploadSets, whose first file is named .xlsx but is
\* not a workbook ExcelJS can load
CorruptSet == MaxUploadSets + 2

\* the anchor an upload set was stored under by the Upload stage
AnchorOf(u) == IF u = 3 THEN 1 ELSE 2

\* objects under ontrac/<anchor>/<upload_set_id>/
UploadedFiles(u) ==
  CASE u = 1 -> << XlsxFile("a.xlsx", "Keystone", << DataRow("t1"), DataRow("t2"), FooterRow >>),
                   XlsxFile("b.xlsx", "Keystone", << DataRow("t3") >>) >>
    [] u = 2 -> << XlsxFile("c.xlsx", "Keystone", << DataRow("t1"), DataRow(""), DataRow(" ") >>) >>
    [] u = 3 -> << XlsxFile("d.xlsx", "Beltway", << DataRow("t4") >>),
                   [name |-> "e.csv", xlsx |-> FALSE, loadable |-> FALSE, headerMatch |-> FALSE,
                    row1Region |-> "", rows |-> << >>] >>
    [] u = CorruptSet ->
                << [name |-> "f.xlsx", xlsx |-> TRUE, loadable |-> FALSE, headerMatch |-> FALSE,
                    row1Region |-> "", rows |-> << >>],
                   XlsxFile("g.xlsx", "Keystone", << DataRow("t5") >>) >>
    [] OTHER -> << >>

StorageList(fma, u) == IF fma = AnchorOf(u) THEN UploadedFiles(u) ELSE << >>

VARIABLES batches, rawRows, pins, rubricVersions, settingsRows, artifacts,
          inv, nCommits, nFaults, lastResp, rd

\* the state of the admin uploads page: the React state of the component,
\* the position of its running async function, and the regions load
VARIABLES files, fiscalRefDate, regionIndex, regionsErr, busy, err, pipeline,
          uploadResp, parseResp, commitResp, run, loadRegions

serverVars == << batches, rawRows, pins, rubricVersions, settingsRows, artifacts,
                 inv, nCommits, nFaults, lastResp, rd >>

pageVars == << files, fiscalRefDate, regionIndex, regionsErr, busy, err, pipeline,
               uploadResp, parseResp, commitResp, run, loadRegions >>

\* the last answer of a read-only route or of a helper function, with the
\* input it was given
VARIABLE call

\* the KPI store and the handlers of the KPI commit route: the rows of
\* kpi_master_v1, the status of each row of kpi_batches_v1, the position of
\* the handler that serves each batch, the status code of the last answer
\* for each batch and the number of requests made
VARIABLE kpi

NoCall == [fn |-> "", input |-> << >>, output |-> << >>]

vars == << serverVars, pageVars, call, kpi >>

(* ------------------------- row extraction ------------------------------ *)
StoragePath(fma, u, name) == << fma, u, name >>

\* rows 3.. of the matched sheet -> DB rows (row_num is the sheet row number)
\* the row loop without the tech_id check
RECURSIVE ExtractRows_KeepAll(_, _, _, _)
ExtractRows_KeepAll(batch_id, path, f, k) ==
  IF k > Len(f.rows) THEN << >>
  ELSE LET row == f.rows[k]
           tech_id == IF row.tech_id = " " THEN "" ELSE row.tech_id
           region == IF f.row1Region # "" THEN f.row1Region ELSE row.regionField
           dbRow == [batch_id |-> batch_id, source_file |-> path, row_num |-> k + 2,
                     tech_id |-> tech_id, region |-> region]
       IN  (IF row.footer THEN << >> ELSE << dbRow >>)
           \o ExtractRows_KeepAll(batch_id, path, f, k + 1)

\* the tech id cell is trimmed: a cell of white space is the empty string
RECURSIVE ExtractRows(_, _, _, _)
ExtractRows(batch_id, path, f, k) ==
  IF k > Len(f.rows) THEN << >>
  ELSE LET row == f.rows[k]
           tech_id == IF row.tech_id = " " THEN "" ELSE row.tech_id
           region == IF f.row1Region # "" THEN f.row1Region ELSE row.regionField
           dbRow == [batch_id |-> batch_id, source_file |-> path, row_num |-> k + 2,
                     tech_id |-> tech_id, region |-> region]
       IN  (IF row.footer \/ tech_id = "" THEN << >> ELSE << dbRow >>)
           \o ExtractRows(batch_id, path, f, k + 1)

\* a per-file entry of the results list
FileResult(okv, name, why, n) == [ok |-> okv, file |-> name, error |-> why, rowsParsed |-> n]

\* a stored commit artifact (JSONL or manifest), keyed by (fma, u, name)
Artifact(fma, u, name, okv, failed, n) ==
  [fma |-> fma, u |-> u, name |-> name, ok |-> okv, failed |-> failed, rows |-> n]

PutArtifact(store, a) ==
  { x \in store : ~(x.fma = a.fma /\ x.u = a.u /\ x.name = a.name) } \cup { a }

\* The per-file loop over the listed objects. fault[name] is what the
\* environment does to that file: "none", "download" (download fails),
\* "jsonl" (the JSONL upload throws) or "jsonl_error" (the JSONL upload
\* answers { error }, which the loop does not read). An unloadable workbook
\* throws out of the loop. The result carries the rows, the results list, the artifact store
\* and whether the loop threw.
RECURSIVE ParseFiles(_, _, _, _, _, _, _)
ParseFiles(batch_id, fma, u, objs, fault, k, acc) ==
  IF k > Len(objs) THEN acc
  ELSE
    LET f == objs[k]
        path == StoragePath(fma, u, f.name)
        push(r) == [acc EXCEPT !.results = Append(@, r)]
    IN
    IF ~f.xlsx THEN
      ParseFiles(batch_id, fma, u, objs, fault, k + 1, push(FileResult(FALSE, f.name, "not_xlsx", 0)))
    ELSE IF fault[f.name] = "download" THEN
      ParseFiles(batch_id, fma, u, objs, fault, k + 1, push(FileResult(FALSE, f.name, "download", 0)))
    ELSE IF ~f.loadable THEN
      [acc EXCEPT !.threw = TRUE]
    ELSE IF ~f.headerMatch THEN
      ParseFiles(batch_id, fma, u, objs, fault, k + 1, push(FileResult(FALSE, f.name, "header", 0)))
    ELSE
      LET rows == ExtractRows(batch_id, path, f, 1)
          withRows == [acc EXCEPT !.dbRows = @ \o rows]
      IN
      IF fault[f.name] = "jsonl" THEN
        ParseFiles(batch_id, fma, u, objs, fault, k + 1,
                   [withRows EXCEPT !.results = Append(@, FileResult(FALSE, f.name, "jsonl_warning", Len(rows)))])
      ELSE IF fault[f.name] = "jsonl_error" THEN
        ParseFiles(batch_id, fma, u, objs, fault, k + 1,
                   [withRows EXCEPT !.results = Append(@, FileResult(TRUE, f.name, "", Len(rows)))])
      ELSE
        ParseFiles(batch_id, fma, u, objs, fault, k + 1,
                   [withRows EXCEPT
                      !.results = Append(@, FileResult(TRUE, f.name, "", Len(rows))),
                      !.store = PutArtifact(@, Artifact(fma, u, f.name \o ".jsonl", TRUE, 0, Len(rows)))])

CountOk(results) == Cardinality({ k \in 1..Len(results) : results[k].ok })
CountFailed(results) == Cardinality({ k \in 1..Len(results) : ~results[k].ok })

(* ---------------------- header fingerprint ----------------------------- *)
\* Cell texts are sequences of one-character strings. The expected header
\* list stands for the 34 expected names, with their mixed case.
EXPECTED_HEADERS == << << "T" >>, << "a" >> >>

\* the row-2 cell texts a sheet can hold
HeaderCells ==
  { << >>, << " " >>, << "T" >>, << "t" >>, << " ", "T", " " >>, << "a" >>, << "A" >>,
    << "b" >>, << "T", "a" >>, << "T", " ", "a" >>, << "t", " ", " ", "a" >>,
    << "t", "|", "a" >>, << "T", "|", "A" >> }
MaxHeaders == 2

\* 'A'..'Z' -> 'a'..'z' for the letters in use
LowerOf(c) == CASE c = "T" -> "t" [] c = "A" -> "a" [] c = "B" -> "b" [] OTHER -> c

RECURSIVE TrimText(_)
TrimText(s) ==
  IF s = << >> THEN s
  ELSE IF Head(s) = " " THEN TrimText(Tail(s))
  ELSE IF s[Len(s)] = " " THEN TrimText(SubSeq(s, 1, Len(s) - 1))
  ELSE s

\* .replace(/\s+/g, " ")
RECURSIVE CollapseSpaces(_)
CollapseSpaces(s) ==
  IF Len(s) < 2 THEN s
  ELSE IF s[1] = " " /\ s[2] = " " THEN CollapseSpaces(Tail(s))
  ELSE << s[1] >> \o CollapseSpaces(Tail(s))

normalizeForFingerprint(s) ==
  CollapseSpaces([ k \in 1..Len(TrimText(s)) |-> LowerOf(TrimText(s)[k]) ])

\* headers.map(normalizeForFingerprint).join("|")
RECURSIVE fingerprint(_)
fingerprint(headers) ==
  IF headers = << >> THEN << >>
  ELSE IF Len(headers) = 1 THEN normalizeForFingerprint(headers[1])
  ELSE normalizeForFingerprint(headers[1]) \o << "|" >> \o fingerprint(Tail(headers))

\* the header test of one worksheet: row 2 trimmed, empty cells dropped, a
\* sheet without headers skipped, the rest compared by fingerprint
MatchSheet(row2) ==
  /\ LET headers == SelectSeq([ k \in 1..Len(row2) |-> TrimText(row2[k]) ], LAMBDA h : Len(h) > 0)
     IN call' = [fn |-> "matchSheet", input |-> row2,
                 output |-> [headers |-> headers,
                             matched |-> /\ Len(headers) > 0
                                         /\ fingerprint(headers) = fingerprint(EXPECTED_HEADERS)]]
  /\ UNCHANGED << serverVars, pageVars, kpi >>

(* ------------------------- commit-ontrac POST -------------------------- *)
NoResp == [u |-> 0, code |-> 0, ok |-> FALSE, batch_id |-> NoId, rows |-> 0, failed |-> 0, error |-> ""]
ErrResp(u, code, msg) ==
  [u |-> u, code |-> code, ok |-> FALSE, batch_id |-> NoId, rows |-> 0, failed |-> 0, error |-> msg]

\* a handler that is not running
Idle ==
  [pc |-> "idle", u |-> 0, fma |-> NoAnchor, batch_id |-> NoId, dbRows |-> << >>,
   results |-> << >>, i |-> 0, rubric_id |-> NoId, settings_pinned_at |-> 0]

\* the handler returns NextResponse.json(resp)
Return(p, resp) ==
  /\ inv' = [inv EXCEPT ![p] = Idle]
  /\ lastResp' = resp

\* n operations of this step fail in the store or the storage service
Inject(n) ==
  /\ nFaults + n <= MaxFaults
  /\ nFaults' = nFaults + n

BatchOf(u) == { b \in batches : b.upload_set_id = u }

\* a plain insert in place of the upsert: a second request for u adds a row
UpsertBatch_InsertOnly(u, fma) ==
  batches \cup { [batch_id |-> Cardinality(batches) + 1, upload_set_id |-> u,
                  fiscal_month_anchor |-> fma, status |-> "committing",
                  created_at |-> Cardinality(batches) + 1] }

\* upsert on conflict upload_set_id: update the row of u, or insert a new one
UpsertBatch(u, fma) ==
  IF BatchOf(u) # {}
  THEN { IF b.upload_set_id = u
         THEN [b EXCEPT !.fiscal_month_anchor = fma, !.status = "committing"]
         ELSE b : b \in batches }
  ELSE batches \cup { [batch_id |-> Cardinality(batches) + 1, upload_set_id |-> u,
                       fiscal_month_anchor |-> fma, status |-> "committing",
                       created_at |-> Cardinality(batches) + 1] }

\* the POST entry with a short cut: a batch that is already committed is
\* answered at once and not run again
CommitRequest_SkipCommitted(p, u, fma, dbOk) ==
  /\ inv[p].pc = "idle"
  /\ nCommits < MaxCommits
  /\ nCommits' = nCommits + 1
  /\ IF u = 0 \/ fma = NoAnchor THEN
       /\ dbOk
       /\ Return(p, ErrResp(u, 400, "Missing upload_set_id or fiscal_month_anchor"))
       /\ UNCHANGED << batches, nFaults >>
     ELSE IF ~dbOk THEN
       /\ Inject(1)
       /\ Return(p, ErrResp(u, 500, "Failed to resolve ingest batch"))
       /\ UNCHANGED batches
     ELSE IF \E b \in BatchOf(u) : b.status = "committed" THEN
       /\ Return(p, [u |-> u, code |-> 200, ok |-> TRUE,
                     batch_id |-> (CHOOSE b \in BatchOf(u) : TRUE).batch_id,
                     rows |-> 0, failed |-> 0, error |-> ""])
       /\ UNCHANGED << batches, nFaults >>
     ELSE
       /\ batches' = UpsertBatch(u, fma)
       /\ inv' = [inv EXCEPT ![p] =
                    [Idle EXCEPT !.pc = "parse", !.u = u, !.fma = fma,
                       !.batch_id = (CHOOSE b \in batches' : b.upload_set_id = u).batch_id]]
       /\ UNCHANGED << nFaults, lastResp >>
  /\ UNCHANGED << rawRows, pins, rubricVersions, settingsRows, artifacts, rd, pageVars, call, kpi >>

\* POST entry: input check, then step 0 (resolve batch_id, mark committing)
CommitRequest(p, u, fma, dbOk) ==
  /\ inv[p].pc = "idle"
  /\ nCommits < MaxCommits
  /\ nCommits' = nCommits + 1
  /\ IF u = 0 \/ fma = NoAnchor THEN
       /\ dbOk
       /\ Return(p, ErrResp(u, 400, "Missing upload_set_id or fiscal_month_anchor"))
       /\ UNCHANGED << batches, nFaults >>
     ELSE IF ~dbOk THEN
       /\ Inject(1)
       /\ Return(p, ErrResp(u, 500, "Failed to resolve ingest batch"))
       /\ UNCHANGED batches
     ELSE
       /\ batches' = UpsertBatch(u, fma)
       /\ inv' = [inv EXCEPT ![p] =
                    [Idle EXCEPT !.pc = "parse", !.u = u, !.fma = fma,
                       !.batch_id = (CHOOSE b \in batches' : b.upload_set_id = u).batch_id]]
       /\ UNCHANGED << nFaults, lastResp >>
  /\ UNCHANGED << rawRows, pins, rubricVersions, settingsRows, artifacts, rd, pageVars, call, kpi >>

Faults(objs) ==
  [ { objs[k].name : k \in 1..Len(objs) } -> { "none", "download", "jsonl", "jsonl_error" } ]
FaultCount(fault) == Cardinality({ n \in DOMAIN fault : fault[n] # "none" })

\* steps 1 and 2: list the uploaded files, parse them, write JSONL artifacts
CommitParse(p, listOk, fault) ==
  /\ inv[p].pc = "parse"
  /\ LET me == inv[p]
         objects == StorageList(me.fma, me.u)
         out == ParseFiles(me.batch_id, me.fma, me.u, objects, fault, 1,
                           [dbRows |-> << >>, results |-> << >>, store |-> artifacts, threw |-> FALSE])
     IN
     IF ~listOk THEN
       /\ FaultCount(fault) = 0
       /\ Inject(1)
       /\ Return(p, ErrResp(me.u, 500, "list failed"))
       /\ UNCHANGED artifacts
     ELSE IF Len(objects) = 0 THEN
       /\ Return(p, ErrResp(me.u, 404, "No files found"))
       /\ UNCHANGED << artifacts, nFaults >>
     ELSE
       /\ Inject(FaultCount(fault))
       /\ artifacts' = out.store
       /\ IF out.threw THEN Return(p, ErrResp(me.u, 500, "Unknown commit error"))
          ELSE /\ inv' = [inv EXCEPT ![p].pc = IF Len(out.dbRows) > 0 THEN "insert" ELSE "manifest",
                                     ![p].dbRows = out.dbRows,
                                     ![p].results = out.results]
               /\ UNCHANGED lastResp
  /\ UNCHANGED << batches, rawRows, pins, rubricVersions, settingsRows, nCommits, rd, pageVars, call, kpi >>

SeqToBag(sq) == SetToBag({ sq[k] : k \in 1..Len(sq) })

\* the chunk loop with the insert error ignored: the loop goes on
CommitInsertChunk_IgnoreError(p, dbOk) ==
  /\ inv[p].pc = "insert"
  /\ LET me == inv[p]
         chunk == SubSeq(me.dbRows, me.i + 1, Min(me.i + ChunkSize, Len(me.dbRows)))
     IN
     /\ IF ~dbOk THEN Inject(1) /\ UNCHANGED rawRows
        ELSE rawRows' = rawRows (+) SeqToBag(chunk) /\ UNCHANGED nFaults
     /\ inv' = [inv EXCEPT ![p].i = me.i + ChunkSize,
                           ![p].pc = IF me.i + ChunkSize < Len(me.dbRows) THEN "insert" ELSE "manifest"]
     /\ UNCHANGED lastResp
  /\ UNCHANGED << batches, pins, rubricVersions, settingsRows, artifacts, nCommits, rd, pageVars, call, kpi >>

\* step 3: one chunk of insertInChunks
CommitInsertChunk(p, dbOk) ==
  /\ inv[p].pc = "insert"
  /\ LET me == inv[p]
         chunk == SubSeq(me.dbRows, me.i + 1, Min(me.i + ChunkSize, Len(me.dbRows)))
     IN
     IF ~dbOk THEN
       /\ Inject(1)
       /\ Return(p, ErrResp(me.u, 500, "DB insert failed"))
       /\ UNCHANGED rawRows
     ELSE
       /\ rawRows' = rawRows (+) SeqToBag(chunk)
       /\ inv' = [inv EXCEPT ![p].i = me.i + ChunkSize,
                             ![p].pc = IF me.i + ChunkSize < Len(me.dbRows) THEN "insert" ELSE "manifest"]
       /\ UNCHANGED << nFaults, lastResp >>
  /\ UNCHANGED << batches, pins, rubricVersions, settingsRows, artifacts, nCommits, rd, pageVars, call, kpi >>

\* what the storage upload of the manifest does: it stores the object, it
\* answers { error } (which the handler does not read), or it throws
ManifestOutcomes == { "ok", "error", "throw" }

\* step 4: write the commit manifest
CommitManifest(p, up) ==
  /\ inv[p].pc = "manifest"
  /\ LET me == inv[p]
         failedFiles == CountFailed(me.results)
     IN
     IF up = "ok" THEN
       /\ artifacts' = PutArtifact(artifacts,
                         Artifact(me.fma, me.u, "manifest.json", failedFiles = 0, failedFiles, Len(me.dbRows)))
       /\ inv' = [inv EXCEPT ![p].pc = "rubric"]
       /\ UNCHANGED << nFaults, lastResp >>
     ELSE IF up = "error" THEN
       /\ Inject(1)
       /\ inv' = [inv EXCEPT ![p].pc = "rubric"]
       /\ UNCHANGED << artifacts, lastResp >>
     ELSE
       /\ Inject(1)
       /\ Return(p, ErrResp(me.u, 500, "Unknown commit error"))
       /\ UNCHANGED artifacts
  /\ UNCHANGED << batches, rawRows, pins, rubricVersions, settingsRows, nCommits, rd, pageVars, call, kpi >>

\* the rubric query: scope/source_system rows with anchor <= fma, ordered by
\* anchor descending, limit 1. rubricVersions lists the rows in the store's
\* physical order, which decides among equal anchors.
RubricQuery(fma) ==
  LET hits == { k \in 1..Len(rubricVersions) : rubricVersions[k].fiscal_month_anchor <= fma }
      top == { k \in hits : \A j \in hits :
                 rubricVersions[j].fiscal_month_anchor <= rubricVersions[k].fiscal_month_anchor }
  IN  IF hits = {} THEN << >>
      ELSE << rubricVersions[CHOOSE k \in top : \A j \in top : k <= j] >>

\* step 5a without the check of the query result: an empty result goes on
\* with no rubric id
CommitResolveRubric_NoCheck(p, dbOk) ==
  /\ inv[p].pc = "rubric"
  /\ IF ~dbOk THEN
       /\ Inject(1)
       /\ Return(p, ErrResp(inv[p].u, 500, "Failed to resolve rubric version"))
     ELSE
       /\ inv' = [inv EXCEPT
                    ![p].rubric_id = IF RubricQuery(inv[p].fma) = << >> THEN NoId
                                     ELSE RubricQuery(inv[p].fma)[1].id,
                    ![p].pc = "settings"]
       /\ UNCHANGED << nFaults, lastResp >>
  /\ UNCHANGED << batches, rawRows, pins, rubricVersions, settingsRows, artifacts, nCommits, rd, pageVars, call, kpi >>

\* step 5a: resolve the rubric version to pin
CommitResolveRubric(p, dbOk) ==
  /\ inv[p].pc = "rubric"
  /\ IF ~dbOk THEN
       /\ Inject(1)
       /\ Return(p, ErrResp(inv[p].u, 500, "Failed to resolve rubric version"))
     ELSE IF RubricQuery(inv[p].fma) = << >> THEN
       /\ Return(p, ErrResp(inv[p].u, 500, "Missing effective rubric"))
       /\ UNCHANGED nFaults
     ELSE
       /\ inv' = [inv EXCEPT ![p].rubric_id = RubricQuery(inv[p].fma)[1].id, ![p].pc = "settings"]
       /\ UNCHANGED << nFaults, lastResp >>
  /\ UNCHANGED << batches, rawRows, pins, rubricVersions, settingsRows, artifacts, nCommits, rd, pageVars, call, kpi >>

MaxOf(S) == CHOOSE x \in S : \A y \in S : y <= x

\* step 5b: resolve the settings timestamp to pin
CommitResolveSettings(p, dbOk) ==
  /\ inv[p].pc = "settings"
  /\ IF ~dbOk THEN
       /\ Inject(1)
       /\ Return(p, ErrResp(inv[p].u, 500, "Failed to read settings"))
     ELSE IF settingsRows = {} THEN
       /\ Return(p, ErrResp(inv[p].u, 500, "No settings rows found"))
       /\ UNCHANGED nFaults
     ELSE
       /\ inv' = [inv EXCEPT ![p].settings_pinned_at = MaxOf(settingsRows), ![p].pc = "pin"]
       /\ UNCHANGED << nFaults, lastResp >>
  /\ UNCHANGED << batches, rawRows, pins, rubricVersions, settingsRows, artifacts, nCommits, rd, pageVars, call, kpi >>

\* an upsert whose conflict key is the fiscal month instead of the batch
UpsertPin_ByMonth(pin) == { x \in pins : x.fiscal_month_anchor # pin.fiscal_month_anchor } \cup { pin }

\* upsert on conflict batch_id
UpsertPin(pin) == { x \in pins : x.batch_id # pin.batch_id } \cup { pin }

\* step 5c: write the pin row
CommitPin(p, dbOk) ==
  /\ inv[p].pc = "pin"
  /\ IF ~dbOk THEN
       /\ Inject(1)
       /\ Return(p, ErrResp(inv[p].u, 500, "Failed to pin batch rules"))
       /\ UNCHANGED pins
     ELSE
       /\ pins' = UpsertPin([batch_id |-> inv[p].batch_id, fiscal_month_anchor |-> inv[p].fma,
                             rubric_version_id |-> inv[p].rubric_id,
                             settings_pinned_at |-> inv[p].settings_pinned_at])
       /\ inv' = [inv EXCEPT ![p].pc = "status"]
       /\ UNCHANGED << nFaults, lastResp >>
  /\ UNCHANGED << batches, rawRows, rubricVersions, settingsRows, artifacts, nCommits, rd, pageVars, call, kpi >>

FinalStatus(results) == IF CountFailed(results) = 0 THEN "committed" ELSE "committed_with_errors"

\* step 5d: mark the batch committed and respond
CommitFinalize(p, dbOk) ==
  /\ inv[p].pc = "status"
  /\ IF ~dbOk THEN
       /\ Inject(1)
       /\ Return(p, ErrResp(inv[p].u, 500, "Failed to update batch row"))
       /\ UNCHANGED batches
     ELSE
       /\ batches' = { IF b.batch_id = inv[p].batch_id
                       THEN [b EXCEPT !.status = FinalStatus(inv[p].results)] ELSE b : b \in batches }
       /\ Return(p, [u |-> inv[p].u, code |-> 200, ok |-> CountFailed(inv[p].results) = 0,
                     batch_id |-> inv[p].batch_id, rows |-> Len(inv[p].dbRows),
                     failed |-> CountFailed(inv[p].results), error |-> ""])
       /\ UNCHANGED nFaults
  /\ UNCHANGED << rawRows, pins, rubricVersions, settingsRows, artifacts, nCommits, rd, pageVars, call, kpi >>

(* ------------------------------ undo ----------------------------------- *)
RowCountIn(store, b) ==
  BagCardinality([ r \in { x \in BagToSet(store) : x.batch_id = b } |-> store[r] ])
RowCount(b) == RowCountIn(rawRows, b)
PinsIn(table, b) == { x \in table : x.batch_id = b }
PinsOfBatch(b) == PinsIn(pins, b)

\* a row store and a pin table without the rows and the pin of batch b
DeleteRowsOf(store, b) == [ r \in { x \in BagToSet(store) : x.batch_id # b } |-> store[r] ]
DeletePinOf(table, b) == { x \in table : x.batch_id # b }

\* an undo whose pin delete has lost its batch filter
Undo_AllPins(u) ==
  /\ BatchOf(u) # {}
  /\ LET b == (CHOOSE x \in BatchOf(u) : TRUE).batch_id
     IN /\ rawRows' = DeleteRowsOf(rawRows, b)
        /\ pins' = {}
  /\ UNCHANGED << batches, rubricVersions, settingsRows, artifacts, inv, nCommits, nFaults, lastResp, rd, pageVars, call, kpi >>

\* POST /api/ingest/undo {upload_set_id, scope: "commit"}: delete the raw
\* rows and the pin of the batch of upload set u; the batch row and the
\* storage objects stay
Undo(u) ==
  /\ BatchOf(u) # {}
  /\ LET b == (CHOOSE x \in BatchOf(u) : TRUE).batch_id
     IN /\ rawRows' = DeleteRowsOf(rawRows, b)
        /\ pins' = DeletePinOf(pins, b)
  /\ UNCHANGED << batches, rubricVersions, settingsRows, artifacts, inv, nCommits, nFaults, lastResp, rd, pageVars, call, kpi >>

(* ----------------------------- rule tables ----------------------------- *)
\* the rubric version tables an admin can have left behind: ids are assigned
\* in insertion order, every version has an effective-from anchor and an
\* active flag
Version(id, fma, active) == [id |-> id, fiscal_month_anchor |-> fma, active |-> active]

RubricTables ==
  { << >>,
    << Version(1, 1, TRUE) >>,
    << Version(1, 1, FALSE) >>,
    << Version(1, 3, TRUE) >>,
    << Version(1, 1, TRUE), Version(2, 2, FALSE) >>,
    << Version(1, 2, TRUE), Version(2, 2, TRUE) >>,
    << Version(1, 2, TRUE), Version(2, 3, TRUE) >> }

\* the updated_at timestamps of the settings rows
SettingsTables == { {}, { 1, 2 } }

\* a rule table with one version in force and settings present
GoodRules ==
  /\ rubricVersions = << Version(1, 1, TRUE) >>
  /\ settingsRows = { 1, 2 }

\* POST /api/rubric/commit: an admin commits a rubric for fiscal month fma;
\* the version is added to the versions table
RubricCommit(fma) ==
  /\ Len(rubricVersions) < MaxVersions
  /\ rubricVersions' = Append(rubricVersions, Version(Len(rubricVersions) + 1, fma, TRUE))
  /\ UNCHANGED << batches, rawRows, pins, settingsRows, artifacts, inv, nCommits, nFaults,
                  lastResp, rd, pageVars, call, kpi >>

\* an admin deactivates version k
RubricDeactivate(k) ==
  /\ k \in 1..Len(rubricVersions)
  /\ rubricVersions[k].active
  /\ rubricVersions' = [rubricVersions EXCEPT ![k].active = FALSE]
  /\ UNCHANGED << batches, rawRows, pins, settingsRows, artifacts, inv, nCommits, nFaults,
                  lastResp, rd, pageVars, call, kpi >>

\* an admin updates the report settings: the row's updated_at moves on
SettingsUpdate ==
  /\ settingsRows # {}
  /\ MaxOf(settingsRows) < MaxSettingsAt
  /\ settingsRows' = settingsRows \cup { MaxOf(settingsRows) + 1 }
  /\ UNCHANGED << batches, rawRows, pins, rubricVersions, artifacts, inv, nCommits, nFaults,
                  lastResp, rd, pageVars, call, kpi >>

(* --------------------- GET /api/rubric/version ------------------------- *)
\* ids are assigned in insertion order and committed_at follows them
VersionsAt(fma) ==
  { k \in 1..Len(rubricVersions) : rubricVersions[k].fiscal_month_anchor = fma }

\* without an anchor parameter: the anchor of the latest active version
\* effective on or before today
LatestActiveAnchor(today) ==
  LET hits == { k \in 1..Len(rubricVersions) :
                  rubricVersions[k].active /\ rubricVersions[k].fiscal_month_anchor <= today }
  IN  IF hits = {} THEN NoAnchor
      ELSE MaxOf({ rubricVersions[k].fiscal_month_anchor : k \in hits })

\* the versions of exactly that anchor, newest id first: the first active
\* one, else the newest, else none
PickVersion(fma) ==
  LET list == VersionsAt(fma)
      actives == { k \in list : rubricVersions[k].active }
      newest(S) == CHOOSE k \in S : \A j \in S : rubricVersions[j].id <= rubricVersions[k].id
  IN  IF list = {} THEN NoId
      ELSE IF actives # {} THEN rubricVersions[newest(actives)].id
      ELSE rubricVersions[newest(list)].id

\* the handler: anchorParam is NoAnchor when the caller passes no anchor
RubricVersionGET(anchorParam, today, dbOk) ==
  /\ call' =
       IF ~dbOk THEN [fn |-> "rubric/version", input |-> << anchorParam, today >>,
                      output |-> [ok |-> FALSE, fiscal_month_anchor |-> NoAnchor, version |-> NoId]]
       ELSE LET fma == IF anchorParam # NoAnchor THEN anchorParam ELSE LatestActiveAnchor(today)
            IN [fn |-> "rubric/version", input |-> << anchorParam, today >>,
                output |-> [ok |-> TRUE, fiscal_month_anchor |-> fma,
                            version |-> IF fma = NoAnchor THEN NoId ELSE PickVersion(fma)]]
  /\ UNCHANGED << serverVars, pageVars, kpi >>

(* ---------------------- region techs reader (GET) ---------------------- *)
ReaderIdle == [pc |-> "idle", region |-> "", batch_id |-> NoId, pin |-> NoId, rows |-> 0]

Regions == { "Keystone", "Beltway" }

\* 1) latest committed ontrac batch, optionally of one fiscal month
LatestCommitted(fma) ==
  LET C == { b \in batches : b.status = "committed" /\ (fma = NoAnchor \/ b.fiscal_month_anchor = fma) }
  IN  IF C = {} THEN NoId
      ELSE (CHOOSE b \in C : \A c \in C : c.created_at <= b.created_at).batch_id

ReadBatch(region, fma) ==
  /\ rd.pc \in { "idle", "done" }
  /\ rd' = IF LatestCommitted(fma) = NoId THEN ReaderIdle
           ELSE [ReaderIdle EXCEPT !.pc = "pin", !.region = region, !.batch_id = LatestCommitted(fma)]
  /\ UNCHANGED << batches, rawRows, pins, rubricVersions, settingsRows, artifacts, inv, nCommits, nFaults, lastResp, pageVars, call, kpi >>

\* 2) pin for that batch (if present)
ReadPin ==
  /\ rd.pc = "pin"
  /\ LET P == { x \in pins : x.batch_id = rd.batch_id }
     IN rd' = [rd EXCEPT !.pc = "rows",
                         !.pin = IF P = {} THEN NoId ELSE (CHOOSE x \in P : TRUE).rubric_version_id]
  /\ UNCHANGED << batches, rawRows, pins, rubricVersions, settingsRows, artifacts, inv, nCommits, nFaults, lastResp, pageVars, call, kpi >>

\* 3) raw rows of that batch and region
ReadRows ==
  /\ rd.pc = "rows"
  /\ LET R == { r \in BagToSet(rawRows) : r.batch_id = rd.batch_id /\ r.region = rd.region }
     IN rd' = [rd EXCEPT !.pc = "done", !.rows = BagCardinality([ r \in R |-> rawRows[r] ])]
  /\ UNCHANGED << batches, rawRows, pins, rubricVersions, settingsRows, artifacts, inv, nCommits, nFaults, lastResp, pageVars, call, kpi >>

(* ------------------ admin uploads page: text helpers ------------------- *)
\* Strings that the page inspects are sequences of one-character strings.
LowerChars ==
  << "a", "b", "c", "d", "e", "f", "g", "h", "i", "j", "k", "l", "m" >> \o
  << "n", "o", "p", "q", "r", "s", "t", "u", "v", "w", "x", "y", "z" >>
UpperChars ==
  << "A", "B", "C", "D", "E", "F", "G", "H", "I", "J", "K", "L", "M" >> \o
  << "N", "O", "P", "Q", "R", "S", "T", "U", "V", "W", "X", "Y", "Z" >>
Digits == { "1", "2" }
Alnum == { UpperChars[k] : k \in 1..Len(UpperChars) } \cup Digits
Chars == Alnum \cup { LowerChars[k] : k \in 1..Len(LowerChars) } \cup { "_", "-", ".", " " }

UpperChar(c) ==
  IF \E k \in 1..Len(LowerChars) : LowerChars[k] = c
  THEN UpperChars[CHOOSE k \in 1..Len(LowerChars) : LowerChars[k] = c] ELSE c
LowerChar(c) ==
  IF \E k \in 1..Len(UpperChars) : UpperChars[k] = c
  THEN LowerChars[CHOOSE k \in 1..Len(UpperChars) : UpperChars[k] = c] ELSE c

toUpperCase(s) == [ k \in 1..Len(s) |-> UpperChar(s[k]) ]
toLowerCase(s) == [ k \in 1..Len(s) |-> LowerChar(s[k]) ]

endsWith(s, suffix) ==
  Len(suffix) <= Len(s) /\ SubSeq(s, Len(s) - Len(suffix) + 1, Len(s)) = suffix

includes(hay, token) ==
  \E i \in 0..(Len(hay) - Len(token)) : SubSeq(hay, i + 1, i + Len(token)) = token

\* .replace(/\.[A-Z0-9]+$/i, ""): drop a dot followed by letters and digits up
\* to the end
StripExtension(s) ==
  LET dots == { i \in 1..(Len(s) - 1) :
                  s[i] = "." /\ \A j \in (i + 1)..Len(s) : UpperChar(s[j]) \in Alnum }
  IN  IF dots = {} THEN s
      ELSE SubSeq(s, 1, (CHOOSE i \in dots : \A j \in dots : i <= j) - 1)

\* .replace(/[class]+/g, " "): every maximal run of characters of class
\* becomes one space
RECURSIVE ReplaceRuns(_, _, _)
ReplaceRuns(s, class, k) ==
  IF k > Len(s) THEN << >>
  ELSE IF s[k] \notin class THEN << s[k] >> \o ReplaceRuns(s, class, k + 1)
  ELSE IF k > 1 /\ s[k - 1] \in class THEN ReplaceRuns(s, class, k + 1)
  ELSE << " " >> \o ReplaceRuns(s, class, k + 1)

RECURSIVE trim(_)
trim(s) ==
  IF s = << >> THEN s
  ELSE IF Head(s) = " " THEN trim(Tail(s))
  ELSE IF s[Len(s)] = " " THEN trim(SubSeq(s, 1, Len(s) - 1))
  ELSE s

normalizeForMatch(s) ==
  trim(ReplaceRuns(ReplaceRuns(StripExtension(toUpperCase(s)), Chars \ Alnum, 1), { " " }, 1))

\* the region index: the normalized names in insertion order and, for each,
\* the display name first seen; NoIndex is null
NoIndex == [set |-> << >>, map |-> << >>]
\* no region (null)
NoRegion == << >>

\* an index whose map keeps the display name seen last for a normalized name
RECURSIVE BuildIndex_LastWins(_, _, _)
BuildIndex_LastWins(regions, k, idx) ==
  IF k > Len(regions) THEN idx
  ELSE LET display == trim(regions[k])
           norm == normalizeForMatch(display)
       IN  IF display = << >> \/ norm = << >>
           THEN BuildIndex_LastWins(regions, k + 1, idx)
           ELSE IF \E j \in 1..Len(idx.set) : idx.set[j] = norm
           THEN BuildIndex_LastWins(regions, k + 1,
                  [idx EXCEPT !.map = [ j \in 1..Len(idx.set) |->
                                          IF idx.set[j] = norm THEN display ELSE idx.map[j] ]])
           ELSE BuildIndex_LastWins(regions, k + 1,
                  [set |-> Append(idx.set, norm), map |-> Append(idx.map, display)])

RECURSIVE BuildIndex(_, _, _)
BuildIndex(regions, k, idx) ==
  IF k > Len(regions) THEN idx
  ELSE LET display == trim(regions[k])
           norm == normalizeForMatch(display)
       IN  IF display = << >> \/ norm = << >>
              \/ \E j \in 1..Len(idx.set) : idx.set[j] = norm
           THEN BuildIndex(regions, k + 1, idx)
           ELSE BuildIndex(regions, k + 1,
                           [set |-> Append(idx.set, norm), map |-> Append(idx.map, display)])

matchRegionFromText(text, idx) ==
  IF idx = NoIndex THEN NoRegion
  ELSE LET hay == normalizeForMatch(text)
           hits == { k \in 1..Len(idx.set) : includes(hay, idx.set[k]) }
       IN  IF hits = {} THEN NoRegion
           ELSE idx.map[CHOOSE k \in hits : \A j \in hits : k <= j]

extractRegionFromFilename(name, idx) ==
  IF idx = NoIndex THEN NoRegion ELSE matchRegionFromText(name, idx)

\* fiscal reference dates: a calendar date, the empty string, or text that
\* does not parse as a date
RefDate(y, m, d) == [kind |-> "date", y |-> y, m |-> m, d |-> d]
EmptyRef == [kind |-> "empty", y |-> 0, m |-> 0, d |-> 0]
BadRef == [kind |-> "bad", y |-> 0, m |-> 0, d |-> 0]
\* no anchor (null)
NoMonth == [y |-> 0, m |-> 0, d |-> 0]

\* the anchor rule with the roll-over starting one day early
fiscalMonthAnchor_From21(ref) ==
  IF ref.kind # "date" THEN NoMonth
  ELSE LET m0 == ref.m - 1
           m1 == IF ref.d >= 21 THEN m0 + 1 ELSE m0
       IN  [y |-> IF m1 = 12 THEN ref.y + 1 ELSE ref.y,
            m |-> (IF m1 = 12 THEN 0 ELSE m1) + 1, d |-> 21]

\* the anchor `${y}-${mm}-21` of a reference date, as [y, m, d]; the month
\* is counted from 0 as getUTCMonth does
fiscalMonthAnchor(ref) ==
  IF ref.kind # "date" THEN NoMonth
  ELSE LET m0 == ref.m - 1
           m1 == IF ref.d >= 22 THEN m0 + 1 ELSE m0
       IN  [y |-> IF m1 = 12 THEN ref.y + 1 ELSE ref.y,
            m |-> (IF m1 = 12 THEN 0 ELSE m1) + 1, d |-> 21]

\* the calendar dates of a few years, a leap year among them
MaxYears == 2
Years == { 2023 + k : k \in 1..MaxYears }
DaysIn(y, m) ==
  IF m = 2 THEN (IF y % 4 = 0 /\ (y % 100 # 0 \/ y % 400 = 0) THEN 29 ELSE 28)
  ELSE IF m \in { 4, 6, 9, 11 } THEN 30 ELSE 31
CalendarDates ==
  UNION { { RefDate(y, m, d) : d \in 1..DaysIn(y, m) } : y \in Years, m \in 1..12 }

(* --------------------- footer test of the row loop --------------------- *)
Letters == << "a", "b", "c", "d", "e", "f", "g", "h", "i", "j", "k", "l", "m", "n", "o", "p", "q", "r", "s", "t", "u", "v", "w", "x", "y", "z" >>
Capitals == << "A", "B", "C", "D", "E", "F", "G", "H", "I", "J", "K", "L", "M", "N", "O", "P", "Q", "R", "S", "T", "U", "V", "W", "X", "Y", "Z" >>

\* String.prototype.toUpperCase on the letters a..z
UpperText(s) ==
  [ k \in 1..Len(s) |->
      IF \E j \in 1..Len(Letters) : Letters[j] = s[k]
      THEN Capitals[CHOOSE j \in 1..Len(Letters) : Letters[j] = s[k]] ELSE s[k] ]

FooterPatterns ==
  { << "G", "R", "A", "N", "D", " ", "T", "O", "T", "A", "L" >>,
    << "S", "U", "B", "T", "O", "T", "A", "L" >>,
    << "S", "U", "B", " ", "T", "O", "T", "A", "L" >>,
    << "T", "O", "T", "A", "L", "S" >>,
    << "T", "O", "T", "A", "L" >>,
    << "S", "U", "M", "M", "A", "R", "Y" >>,
    << "E", "N", "D", " ", "O", "F", " ", "R", "E", "P", "O", "R", "T" >>,
    << "R", "E", "P", "O", "R", "T", " ", "T", "O", "T", "A", "L" >>,
    << "P", "A", "G", "E", " " >> }

\* joined.split(/\s+/).filter(Boolean).length
TokenCount(s) == Cardinality({ k \in 1..Len(s) : s[k] # " " /\ (k = 1 \/ s[k - 1] = " ") })

looksLikeFooter(joined) ==
  \/ TrimText(UpperText(joined)) = << >>
  \/ \E pat \in FooterPatterns : includes(UpperText(joined), pat)
  \/ TokenCount(joined) <= 2

\* vals.filter(Boolean).join(" ").trim()
RECURSIVE JoinCells(_)
JoinCells(vals) ==
  IF vals = << >> THEN << >>
  ELSE IF Head(vals) = << >> THEN JoinCells(Tail(vals))
  ELSE IF JoinCells(Tail(vals)) = << >> THEN Head(vals)
  ELSE Head(vals) \o << " " >> \o JoinCells(Tail(vals))

\* the cell texts of a sheet row, and the rows of up to MaxCells cells
MaxCells == 4
CellTexts ==
  { << >>,
    << "1", "2", "3", "4", "5" >>,
    << "J", "a", "n", "e", " ", "D", "o", "e" >>,
    << "R", "e", "g", "i", "o", "n", " ", "X" >>,
    << "4", "2" >>,
    << "G", "R", "A", "N", "D", " ", "T", "O", "T", "A", "L" >>,
    << "1", "0", "0", "0" >>,
    << "P", "a", "g", "e", " ", "2" >> }
SheetRows == UNION { [1..n -> CellTexts] : n \in 0..MaxCells }

\* the body of the row loop for one row whose first column is TechId: the
\* row is skipped as empty, skipped as a footer, skipped for want of a
\* tech id, or kept as a data row
ExtractRow(vals) ==
  /\ LET joined == TrimText(JoinCells(vals))
         tech_id == IF Len(vals) > 0 THEN TrimText(vals[1]) ELSE << >>
     IN call' = [fn |-> "extractRow", input |-> vals,
                 output |-> [joined |-> joined,
                             verdict |-> IF joined = << >> THEN "empty"
                                         ELSE IF looksLikeFooter(joined) THEN "footer"
                                         ELSE IF tech_id = << >> THEN "no_tech_id"
                                         ELSE "data"]]
  /\ UNCHANGED << serverVars, pageVars, kpi >>

(* ------------------ admin uploads page: state and steps ---------------- *)
\* files listed in one selection or in a parse output
MaxFiles == 2

\* the page's err state: the message text, the file names joined into it and
\* the note that follows each name; NoErr is null
NoErr == [text |-> "", items |-> << >>, note |-> ""]
Error(text) == [text |-> text, items |-> << >>, note |-> ""]

NoPipeline == [upload |-> "idle", parse |-> "idle", validate |-> "idle", commit |-> "idle"]

\* null response states
NoUpload == [upload_set_id |-> 0, fiscal_month_anchor |-> NoMonth]
NoParse == [ok |-> FALSE, files |-> << >>]
NoCommit == [ok |-> FALSE, batch_id |-> NoId]

RunIdle == [pc |-> "idle", upload_set_id |-> 0, effectiveAnchor |-> NoMonth]

\* the memoized anchor of the chosen reference date (today when empty)
anchor(today) ==
  IF fiscalRefDate.kind = "empty" THEN fiscalMonthAnchor(today) ELSE fiscalMonthAnchor(fiscalRefDate)

\* the gate without the two region conditions
canProcess_NoRegionGate(today) ==
  /\ Len(files) > 0
  /\ busy = ""
  /\ (IF fiscalRefDate.kind = "empty" THEN fiscalMonthAnchor(today)
      ELSE fiscalMonthAnchor(fiscalRefDate)) # NoMonth

canProcess(today) ==
  /\ Len(files) > 0
  /\ busy = ""
  /\ anchor(today) # NoMonth
  /\ regionIndex # NoIndex
  /\ regionsErr = NoErr

canUndo == busy = "" /\ uploadResp.upload_set_id # 0 /\ pipeline.commit = "ok"

\* the file names the user can drop, and the names a parse output can list
FileKb1 == << "k", "b", "_", "1", ".", "x", "l", "s", "x" >>
FileZ2 == << "z", "-", "2", ".", "c", "s", "v" >>
FileTxt == << "K", "B", ".", "t", "x", "t" >>
FileBKb == << "b", ".", "k", "b" >>
DropNames == { FileKb1, FileZ2, FileTxt }
StoredNames == { FileKb1, FileZ2, FileBKb }

RECURSIVE dedupeFiles(_, _)
dedupeFiles(existing, incoming) ==
  IF incoming = << >> THEN existing
  ELSE dedupeFiles(IF \E k \in 1..Len(existing) : existing[k] = Head(incoming)
                   THEN existing ELSE Append(existing, Head(incoming)),
                   Tail(incoming))

addFiles(incoming) ==
  /\ LET filtered == SelectSeq(incoming,
                       LAMBDA n : \/ endsWith(toLowerCase(n), << ".", "c", "s", "v" >>)
                                  \/ endsWith(toLowerCase(n), << ".", "x", "l", "s", "x" >>))
     IN files' = dedupeFiles(files, filtered)
  /\ Len(files') <= MaxFiles
  /\ UNCHANGED << call, kpi, serverVars, fiscalRefDate, regionIndex, regionsErr, busy, err, pipeline,
                  uploadResp, parseResp, commitResp, run, loadRegions >>

removeAt(idx) ==
  /\ idx \in 1..Len(files)
  /\ files' = [ k \in 1..(Len(files) - 1) |-> IF k < idx THEN files[k] ELSE files[k + 1] ]
  /\ UNCHANGED << call, kpi, serverVars, fiscalRefDate, regionIndex, regionsErr, busy, err, pipeline,
                  uploadResp, parseResp, commitResp, run, loadRegions >>

clearAll ==
  /\ files' = << >>
  /\ UNCHANGED << call, kpi, serverVars, fiscalRefDate, regionIndex, regionsErr, busy, err, pipeline,
                  uploadResp, parseResp, commitResp, run, loadRegions >>

setFiscalRefDate(ref) ==
  /\ fiscalRefDate' = ref
  /\ UNCHANGED << call, kpi, serverVars, files, regionIndex, regionsErr, busy, err, pipeline,
                  uploadResp, parseResp, commitResp, run, loadRegions >>

\* the mount effect: GET /api/ref/regions answers; a failed fetch, a response
\* that is not ok, and an empty index all end in the catch branch
loadRegionsDone(fetchOk, regions) ==
  /\ loadRegions = "pending"
  /\ loadRegions' = "done"
  /\ LET idx == BuildIndex(regions, 1, NoIndex)
     IN IF ~fetchOk THEN
          /\ regionsErr' = Error("HTTP 500")
          /\ regionIndex' = NoIndex
        ELSE IF Len(idx.set) = 0 THEN
          /\ regionsErr' = Error("Regions list empty from /api/ref/regions")
          /\ regionIndex' = NoIndex
        ELSE
          /\ regionsErr' = NoErr
          /\ regionIndex' = idx
  /\ UNCHANGED << call, kpi, serverVars, files, fiscalRefDate, busy, err, pipeline,
                  uploadResp, parseResp, commitResp, run >>

\* a catch block that leaves the steps as they were at the throw
CatchProcess_KeepRunning(pl, e) ==
  /\ err' = e
  /\ pipeline' = pl
  /\ busy' = ""
  /\ run' = RunIdle

\* the catch block of doProcessBatch: pl is the pipeline state at the throw
CatchProcess(pl, e) ==
  /\ err' = e
  /\ pipeline' = [ k \in DOMAIN pl |-> IF pl[k] = "running" THEN "fail" ELSE pl[k] ]
  /\ busy' = ""
  /\ run' = RunIdle

\* the click on Process: reset the run, then send the upload
doProcessBatch(today) ==
  /\ run.pc = "idle"
  /\ canProcess(today)
  /\ uploadResp' = NoUpload
  /\ parseResp' = NoParse
  /\ commitResp' = NoCommit
  /\ LET effectiveRef == IF fiscalRefDate.kind = "empty" THEN today ELSE fiscalRefDate
         effectiveAnchor == fiscalMonthAnchor(effectiveRef)
     IN IF effectiveAnchor = NoMonth THEN CatchProcess(NoPipeline, Error("Invalid fiscal reference date."))
        ELSE IF regionIndex = NoIndex THEN CatchProcess(NoPipeline, Error("Regions not loaded. Cannot process."))
        ELSE /\ busy' = "Processing"
             /\ err' = NoErr
             /\ pipeline' = [NoPipeline EXCEPT !.upload = "running"]
             /\ run' = [pc |-> "upload", upload_set_id |-> 0, effectiveAnchor |-> effectiveAnchor]
  /\ UNCHANGED << call, kpi, serverVars, files, fiscalRefDate, regionIndex, regionsErr, loadRegions >>

\* the upload request answers
UploadResponse(fetchOk, upJson) ==
  /\ run.pc = "upload"
  /\ IF ~fetchOk THEN
       /\ CatchProcess(pipeline, Error("HTTP 500"))
       /\ UNCHANGED uploadResp
     ELSE IF upJson.upload_set_id = 0 THEN
       /\ CatchProcess(pipeline, Error("Upload succeeded but upload_set_id missing."))
       /\ UNCHANGED uploadResp
     ELSE
       /\ uploadResp' = upJson
       /\ pipeline' = [pipeline EXCEPT !.upload = "ok", !.parse = "running"]
       /\ run' = [run EXCEPT !.pc = "parse", !.upload_set_id = upJson.upload_set_id]
       /\ UNCHANGED << busy, err >>
  /\ UNCHANGED << call, kpi, serverVars, files, fiscalRefDate, regionIndex, regionsErr,
                  parseResp, commitResp, loadRegions >>

\* the per-file verdicts of the validation step
PerFile(parsed, idx) ==
  [ k \in 1..Len(parsed) |->
      LET region == extractRegionFromFilename(parsed[k].file, idx)
      IN  [file |-> parsed[k].file, region |-> region, regionOk |-> region # NoRegion,
           headerOk |-> parsed[k].headerMatch,
           ok |-> region # NoRegion /\ parsed[k].headerMatch] ]

FileNamesOf(perFile, bad(_)) == [ k \in 1..Len(SelectSeq(perFile, bad)) |-> SelectSeq(perFile, bad)[k].file ]

\* the gate with the two checks in the other order
ValidationGate_RegionFirst(perFile) ==
  LET anyHeaderFail == \E k \in 1..Len(perFile) : ~perFile[k].headerOk
      anyRegionFail == \E k \in 1..Len(perFile) : ~perFile[k].regionOk
  IN  IF anyRegionFail THEN
        [validate |-> "warn",
         thrown |-> [text |-> "Validation not green: region not found in DB for: ",
                     items |-> FileNamesOf(perFile, LAMBDA x : ~x.regionOk),
                     note |-> " (region: NOT FOUND)"]]
      ELSE IF anyHeaderFail THEN
        [validate |-> "fail",
         thrown |-> [text |-> "Validation failed: header mismatch in: ",
                     items |-> FileNamesOf(perFile, LAMBDA x : ~x.headerOk), note |-> ""]]
      ELSE [validate |-> "ok", thrown |-> NoErr]

\* the gate without the region check
ValidationGate_HeaderOnly(perFile) ==
  LET anyHeaderFail == \E k \in 1..Len(perFile) : ~perFile[k].headerOk
  IN  IF anyHeaderFail THEN
        [validate |-> "fail",
         thrown |-> [text |-> "Validation failed: header mismatch in: ",
                     items |-> FileNamesOf(perFile, LAMBDA x : ~x.headerOk), note |-> ""]]
      ELSE [validate |-> "ok", thrown |-> NoErr]

\* the green gating: the state the validate step ends in and the error thrown
\* (NoErr when the run goes on to commit)
ValidationGate(perFile) ==
  LET anyHeaderFail == \E k \in 1..Len(perFile) : ~perFile[k].headerOk
      anyRegionFail == \E k \in 1..Len(perFile) : ~perFile[k].regionOk
      allGreen == \A k \in 1..Len(perFile) : perFile[k].ok
  IN  IF anyHeaderFail THEN
        [validate |-> "fail",
         thrown |-> [text |-> "Validation failed: header mismatch in: ",
                     items |-> FileNamesOf(perFile, LAMBDA x : ~x.headerOk), note |-> ""]]
      ELSE IF anyRegionFail THEN
        [validate |-> "warn",
         thrown |-> [text |-> "Validation not green: region not found in DB for: ",
                     items |-> FileNamesOf(perFile, LAMBDA x : ~x.regionOk),
                     note |-> " (region: NOT FOUND)"]]
      ELSE IF ~allGreen THEN
        [validate |-> "warn", thrown |-> Error("Validation not green.")]
      ELSE [validate |-> "ok", thrown |-> NoErr]

\* a run that records the verdict of the gate and sends the commit request
\* whatever the verdict is
ParseResponse_NoGate(fetchOk, parseJson) ==
  /\ run.pc = "parse"
  /\ IF ~fetchOk THEN
       /\ CatchProcess(pipeline, Error("HTTP 500"))
       /\ UNCHANGED parseResp
     ELSE
       /\ parseResp' = parseJson
       /\ LET gate == ValidationGate(PerFile(parseJson.files, regionIndex))
          IN pipeline' = [pipeline EXCEPT !.parse = "ok", !.validate = gate.validate,
                                          !.commit = "running"]
       /\ run' = [run EXCEPT !.pc = "commit"]
       /\ UNCHANGED << busy, err >>
  /\ UNCHANGED << call, kpi, serverVars, files, fiscalRefDate, regionIndex, regionsErr,
                  uploadResp, commitResp, loadRegions >>

\* the parse request answers: store the output, validate, and on green send
\* the commit request
ParseResponse(fetchOk, parseJson) ==
  /\ run.pc = "parse"
  /\ IF ~fetchOk THEN
       /\ CatchProcess(pipeline, Error("HTTP 500"))
       /\ UNCHANGED parseResp
     ELSE
       /\ parseResp' = parseJson
       /\ LET validating == [pipeline EXCEPT !.parse = "ok", !.validate = "running"]
              gate == ValidationGate(PerFile(parseJson.files, regionIndex))
          IN IF gate.validate # "ok" THEN
               CatchProcess([validating EXCEPT !.validate = gate.validate, !.commit = "idle"], gate.thrown)
             ELSE
               /\ pipeline' = [validating EXCEPT !.validate = "ok", !.commit = "running"]
               /\ run' = [run EXCEPT !.pc = "commit"]
               /\ UNCHANGED << busy, err >>
  /\ UNCHANGED << call, kpi, serverVars, files, fiscalRefDate, regionIndex, regionsErr,
                  uploadResp, commitResp, loadRegions >>

\* the commit request answers; fetchJson throws on a body with ok = false
CommitResponse(fetchOk, commitJson) ==
  /\ run.pc = "commit"
  /\ IF ~fetchOk \/ ~commitJson.ok THEN
       /\ CatchProcess(pipeline, Error("HTTP 500"))
       /\ UNCHANGED commitResp
     ELSE
       /\ commitResp' = commitJson
       /\ pipeline' = [pipeline EXCEPT !.commit = "ok"]
       /\ busy' = ""
       /\ run' = RunIdle
       /\ UNCHANGED err
  /\ UNCHANGED << call, kpi, serverVars, files, fiscalRefDate, regionIndex, regionsErr,
                  uploadResp, parseResp, loadRegions >>

\* the click on Undo (enabled by canUndo): send the undo request
doUndoLastCommit ==
  /\ run.pc = "idle"
  /\ canUndo
  /\ busy' = "Undoing"
  /\ err' = NoErr
  /\ pipeline' = [pipeline EXCEPT !.commit = "running"]
  /\ run' = [RunIdle EXCEPT !.pc = "undo", !.upload_set_id = uploadResp.upload_set_id]
  /\ UNCHANGED << call, kpi, serverVars, files, fiscalRefDate, regionIndex, regionsErr,
                  uploadResp, parseResp, commitResp, loadRegions >>

\* the undo request answers
UndoResponse(fetchOk) ==
  /\ run.pc = "undo"
  /\ IF ~fetchOk THEN
       /\ err' = Error("Undo failed")
       /\ pipeline' = [pipeline EXCEPT !.commit = "fail"]
       /\ UNCHANGED commitResp
     ELSE
       /\ commitResp' = NoCommit
       /\ pipeline' = [pipeline EXCEPT !.commit = "idle"]
       /\ UNCHANGED err
  /\ busy' = ""
  /\ run' = RunIdle
  /\ UNCHANGED << call, kpi, serverVars, files, fiscalRefDate, regionIndex, regionsErr,
                  uploadResp, parseResp, loadRegions >>

\* inputs of the page
\* the day the page is opened, and the days a click can happen on
OpenedOn == RefDate(2025, 12, 21)
RefDates == { OpenedOn, RefDate(2025, 12, 22) }
Drops == { << n >> : n \in DropNames } \cup { << FileKb1, FileZ2 >>, << FileTxt, FileKb1 >> }
RegionKb == << "K", "b" >>
RegionB == << "B" >>
RegionLists == { << >>, << << " " >> >>, << RegionKb >>, << RegionB, RegionKb, << "k", "b" >> >> }
UploadResponses ==
  [upload_set_id : UploadSets \cup {0}, fiscal_month_anchor : { NoMonth }]
ParsedFiles == [file : StoredNames, headerMatch : BOOLEAN]
ParseResponses ==
  { [ok |-> TRUE, files |-> fs] : fs \in UNION { [1..n -> ParsedFiles] : n \in 0..MaxFiles } }
CommitResponses == [ok : BOOLEAN, batch_id : { 1 }]

PageInit ==
  /\ files = << >>
  /\ fiscalRefDate = OpenedOn
  /\ regionIndex = NoIndex
  /\ regionsErr = NoErr
  /\ busy = ""
  /\ err = NoErr
  /\ pipeline = NoPipeline
  /\ uploadResp = NoUpload
  /\ parseResp = NoParse
  /\ commitResp = NoCommit
  /\ run = RunIdle
  /\ loadRegions = "pending"

PageStep ==
  \/ \E incoming \in Drops : addFiles(incoming)
  \/ \E idx \in 1..MaxFiles : removeAt(idx)
  \/ clearAll
  \/ \E ref \in RefDates \cup { EmptyRef, BadRef } : setFiscalRefDate(ref)
  \/ \E fetchOk \in BOOLEAN, regions \in RegionLists : loadRegionsDone(fetchOk, regions)
  \/ \E today \in RefDates : doProcessBatch(today)
  \/ \E fetchOk \in BOOLEAN, upJson \in UploadResponses : UploadResponse(fetchOk, upJson)
  \/ \E fetchOk \in BOOLEAN, parseJson \in ParseResponses : ParseResponse(fetchOk, parseJson)
  \/ \E fetchOk \in BOOLEAN, commitJson \in CommitResponses : CommitResponse(fetchOk, commitJson)
  \/ doUndoLastCommit
  \/ \E fetchOk \in BOOLEAN : UndoResponse(fetchOk)

(* --------------------------- KPI commit POST --------------------------- *)
\* the staged batches: the first two carry the same region and month
MaxKpiBatches == 3
MaxKpiCommits == 3
KpiBatchIds == 1..MaxKpiBatches
KpiBatch(b) ==
  [batch_id |-> b, region |-> IF b <= 2 THEN "Keystone" ELSE "Tri-State", fiscal_month_anchor |-> 1]

\* out: the KPI master rows built from the staged rows of a batch
KpiOut(b) ==
  { [batch_id |-> b, region |-> KpiBatch(b).region,
     fiscal_month_anchor |-> KpiBatch(b).fiscal_month_anchor,
     tech_id |-> "t1", metric_name |-> m] : m \in { "m1", "m2" } }

KpiInit ==
  [master |-> {}, status |-> [ b \in KpiBatchIds |-> "staged" ],
   pc |-> [ b \in KpiBatchIds |-> "idle" ], last |-> [ b \in KpiBatchIds |-> 0 ], n |-> 0]

KpiFrame == UNCHANGED << serverVars, pageVars, call >>

\* steps 1 to 5: the batch, its staged rows and the roster are read and the
\* master rows are built; a failed read answers 500
KpiCommitRequest(b, dbOk) ==
  /\ kpi.pc[b] = "idle"
  /\ kpi.n < MaxKpiCommits
  /\ kpi' = IF dbOk
            THEN [kpi EXCEPT !.pc[b] = "housekeeping", !.n = @ + 1, !.last[b] = 0]
            ELSE [kpi EXCEPT !.n = @ + 1, !.last[b] = 500]
  /\ KpiFrame

\* step 5.5: the rows of the batch's region and month that belong to another
\* batch are deleted
KpiHousekeeping(b, dbOk) ==
  /\ kpi.pc[b] = "housekeeping"
  /\ kpi' = IF dbOk
            THEN [kpi EXCEPT !.pc[b] = "upsert",
                             !.master = { r \in @ :
                                            ~ /\ r.region = KpiBatch(b).region
                                              /\ r.fiscal_month_anchor = KpiBatch(b).fiscal_month_anchor
                                              /\ r.batch_id # b }]
            ELSE [kpi EXCEPT !.pc[b] = "idle", !.last[b] = 500]
  /\ KpiFrame

\* step 6: the rows are upserted on (batch_id, tech_id, metric_name), in one
\* chunk
KpiUpsert(b, dbOk) ==
  /\ kpi.pc[b] = "upsert"
  /\ kpi' = IF dbOk
            THEN [kpi EXCEPT !.pc[b] = "mark", !.master = @ \cup KpiOut(b)]
            ELSE [kpi EXCEPT !.pc[b] = "idle", !.last[b] = 500]
  /\ KpiFrame

\* step 7: the batch is marked committed and the request answered
KpiMarkCommitted(b) ==
  /\ kpi.pc[b] = "mark"
  /\ kpi' = [kpi EXCEPT !.pc[b] = "idle", !.status[b] = "committed", !.last[b] = 200]
  /\ KpiFrame

KpiStep ==
  \/ \E b \in KpiBatchIds, dbOk \in BOOLEAN : KpiCommitRequest(b, dbOk)
  \/ \E b \in KpiBatchIds, dbOk \in BOOLEAN : KpiHousekeeping(b, dbOk)
  \/ \E b \in KpiBatchIds, dbOk \in BOOLEAN : KpiUpsert(b, dbOk)
  \/ \E b \in KpiBatchIds : KpiMarkCommitted(b)

(* --------------------------- specification ----------------------------- *)
Init ==
  /\ batches = {}
  /\ rawRows = EmptyBag
  /\ pins = {}
  /\ rubricVersions \in RubricTables
  /\ settingsRows \in SettingsTables
  /\ artifacts = {}
  /\ inv = [ p \in Procs |-> Idle ]
  /\ nCommits = 0
  /\ nFaults = 0
  /\ lastResp = NoResp
  /\ rd = ReaderIdle
  /\ call = NoCall
  /\ kpi = KpiInit
  /\ PageInit

\* the steps of the commit handlers in P
CommitStep(P) ==
  \/ \E p \in P, u \in UploadSets \cup {0}, dbOk \in BOOLEAN :
       \E fma \in { AnchorOf(u), NoAnchor } : CommitRequest(p, u, fma, dbOk)
  \/ \E p \in P, listOk \in BOOLEAN :
       \E fault \in Faults(StorageList(inv[p].fma, inv[p].u)) : CommitParse(p, listOk, fault)
  \/ \E p \in P, dbOk \in BOOLEAN : CommitInsertChunk(p, dbOk)
  \/ \E p \in P, up \in ManifestOutcomes : CommitManifest(p, up)
  \/ \E p \in P, dbOk \in BOOLEAN : CommitResolveRubric(p, dbOk)
  \/ \E p \in P, dbOk \in BOOLEAN : CommitResolveSettings(p, dbOk)
  \/ \E p \in P, dbOk \in BOOLEAN : CommitPin(p, dbOk)
  \/ \E p \in P, dbOk \in BOOLEAN : CommitFinalize(p, dbOk)

ReaderStep ==
  \/ \E region \in Regions, fma \in { NoAnchor, 2 } : ReadBatch(region, fma)
  \/ ReadPin
  \/ ReadRows

\* Commit requests are served one at a time; Undo requests arrive at any
\* moment, also between the steps of a running Commit.
Next ==
  \/ CommitStep({1})
  \/ \E u \in UploadSets : Undo(u)

Spec == Init /\ [][Next]_vars

\* Commit requests alone, served one at a time, under every rule table
NextCommit == CommitStep({1})

SpecCommit == Init /\ [][NextCommit]_vars

\* Commit and Undo at any moment, with rules in force
InitUndo ==
  /\ Init
  /\ GoodRules

SpecUndo == InitUndo /\ [][Next]_vars

\* the same, observed by a reader of the region-techs route
NextRead ==
  \/ Next
  \/ ReaderStep

SpecRead == Init /\ [][NextRead]_vars

\* one operation at a time: an Undo request is made only while no Commit runs
NextSeq ==
  \/ CommitStep({1})
  \/ \E u \in UploadSets : inv[1].pc = "idle" /\ Undo(u)

SpecSeq == Init /\ [][NextSeq]_vars

\* the upload set named by the request that handler p took or answered in
\* this step
Requested(p) == IF inv'[p].pc = "idle" THEN lastResp'.u ELSE inv'[p].u

\* nothing of upload set u is in the row store or the pin table
Clean(u) == \A b \in BatchOf(u) : RowCount(b.batch_id) = 0 /\ PinsOfBatch(b.batch_id) = {}

\* one operation at a time, and Commit is requested, with well-formed input,
\* only for an upload set that has nothing committed: its first Commit, or a
\* Commit after an Undo
NextRedo ==
  \/ /\ CommitStep({1})
     /\ inv[1].pc = "idle" => (lastResp'.code # 400 /\ Clean(Requested(1)))
  \/ \E u \in UploadSets : inv[1].pc = "idle" /\ Undo(u)

SpecRedo == Init /\ [][NextRedo]_vars

\* Commit requests served concurrently by all handlers, with rules in force
\* and a store and a storage service that answer every call
InitConc ==
  /\ Init
  /\ GoodRules

NextConc == CommitStep(Procs) /\ nFaults' = nFaults

SpecConc == InitConc /\ [][NextConc]_vars

\* Commit requests served one at a time, with rules in force, also for the
\* upload set that holds a corrupt workbook
InitFiles ==
  /\ Init
  /\ GoodRules

NextFiles ==
  \/ CommitStep({1})
  \/ \E dbOk \in BOOLEAN : CommitRequest(1, CorruptSet, AnchorOf(CorruptSet), dbOk)

SpecFiles == InitFiles /\ [][NextFiles]_vars

\* Commit requests served one at a time by a store that answers every call,
\* Undo between them, and an admin who at any moment commits a rubric for the
\* month of the first upload set, deactivates a version or updates the settings
InitRules ==
  /\ Init
  /\ GoodRules

NextRules ==
  \/ CommitStep({1}) /\ nFaults' = nFaults
  \/ \E u \in UploadSets : inv[1].pc = "idle" /\ Undo(u)
  \/ RubricCommit(AnchorOf(1))
  \/ \E k \in 1..MaxVersions : RubricDeactivate(k)
  \/ SettingsUpdate

SpecRules == InitRules /\ [][NextRules]_vars

\* Commit requests served one at a time, with rules in force, also with an
\* anchor that is not a well-formed anchor date
NextInput ==
  \/ CommitStep({1})
  \/ \E u \in UploadSets, dbOk \in BOOLEAN : CommitRequest(1, u, BadAnchor, dbOk)

SpecInput == InitFiles /\ [][NextInput]_vars

\* Commit requests served one at a time, with rules in force, and readers
\* that ask the rubric version route for the rubric of a month
InitResolve ==
  /\ Init
  /\ GoodRules

NextResolve ==
  \/ CommitStep({1})
  \/ \E anchorParam \in Months \cup { NoAnchor }, today \in Months, dbOk \in BOOLEAN :
       RubricVersionGET(anchorParam, today, dbOk)

SpecResolve == InitResolve /\ [][NextResolve]_vars

\* the admin uploads page and the commit route together, for one commit
\* request: the page sends it for the upload set of its run, under the anchor
\* the set was stored under; the handler serves it; the page receives the
\* answer of the handler; after that the page can undo
NextPipeline ==
  \/ /\ lastResp = NoResp
     /\ \/ \E incoming \in Drops : addFiles(incoming)
        \/ \E fetchOk \in BOOLEAN, regions \in RegionLists : loadRegionsDone(fetchOk, regions)
        \/ \E today \in RefDates : doProcessBatch(today)
        \/ \E fetchOk \in BOOLEAN, upJson \in UploadResponses : UploadResponse(fetchOk, upJson)
        \/ \E fetchOk \in BOOLEAN, parseJson \in ParseResponses : ParseResponse(fetchOk, parseJson)
  \/ /\ run.pc = "commit"
     /\ lastResp = NoResp
     /\ \E dbOk \in BOOLEAN :
          CommitRequest(1, run.upload_set_id, AnchorOf(run.upload_set_id), dbOk)
  \/ /\ inv[1].pc # "idle"
     /\ CommitStep({1})
  \/ /\ run.pc = "commit"
     /\ inv[1].pc = "idle"
     /\ lastResp # NoResp
     /\ CommitResponse(lastResp.code = 200, [ok |-> lastResp.ok, batch_id |-> lastResp.batch_id])
  \/ /\ lastResp # NoResp
     /\ \/ doUndoLastCommit
        \/ \E fetchOk \in BOOLEAN : UndoResponse(fetchOk)

SpecPipeline == InitConc /\ [][NextPipeline]_vars

\* KPI commit requests for the staged batches, served concurrently
SpecKpi == InitConc /\ [][KpiStep]_vars

\* the admin uploads page alone, against servers that answer anything
InitClient ==
  /\ Init
  /\ rubricVersions = << >>
  /\ settingsRows = {}

SpecClient == InitClient /\ [][PageStep]_vars

\* the header test applied to every row 2 of up to MaxHeaders cells
NextHeaders ==
  \E row2 \in UNION { [1..n -> HeaderCells] : n \in 0..MaxHeaders } : MatchSheet(row2)

SpecHeaders == InitClient /\ [][NextHeaders]_vars

\* the row loop applied once to any sheet row of up to MaxCells cells
NextRows == call = NoCall /\ \E vals \in SheetRows : ExtractRow(vals)

SpecRows == InitClient /\ [][NextRows]_vars

\* the sheets of up to MaxCols columns: row 2 holds expected header names
\* or empty cells, a data row holds values or empty cells
MaxCols == 3
Row2Cells == { << >> } \cup { EXPECTED_HEADERS[k] : k \in 1..Len(EXPECTED_HEADERS) }
DataCells == { << >>, << "7" >>, << "J" >> }

\* the payload of one data row of a sheet: fileHeaders is row 2 trimmed with
\* its empty cells dropped, and header i takes the text of cell i of the row
BuildPayload(row2, vals) ==
  /\ LET fileHeaders == SelectSeq([ k \in 1..Len(row2) |-> TrimText(row2[k]) ], LAMBDA h : Len(h) > 0)
         matched == Len(fileHeaders) > 0 /\ fingerprint(fileHeaders) = fingerprint(EXPECTED_HEADERS)
         last(h) == CHOOSE i \in 1..Len(fileHeaders) :
                      /\ fileHeaders[i] = h
                      /\ \A j \in 1..Len(fileHeaders) : fileHeaders[j] = h => j <= i
     IN call' = [fn |-> "buildPayload",
                 input |-> [row2 |-> row2, vals |-> vals],
                 output |-> [matched |-> matched,
                             payload |-> IF ~matched THEN << >>
                                         ELSE [ h \in { fileHeaders[i] : i \in 1..Len(fileHeaders) } |->
                                                  IF last(h) <= Len(vals) THEN TrimText(vals[last(h)])
                                                  ELSE << >> ]]]
  /\ UNCHANGED << serverVars, pageVars, kpi >>

NextPayload ==
  /\ call = NoCall
  /\ \E row2 \in UNION { [1..n -> Row2Cells] : n \in 0..MaxCols },
        vals \in UNION { [1..n -> DataCells] : n \in 0..MaxCols } :
       BuildPayload(row2, vals)

SpecPayload == InitClient /\ [][NextPayload]_vars

\* the regions the commit route knows
ALLOWED_REGIONS ==
  << << "K", "e", "y", "s", "t", "o", "n", "e" >>,
     << "B", "e", "l", "t", "w", "a", "y" >>,
     << "B", "i", "g", " ", "S", "o", "u", "t", "h" >>,
     << "F", "l", "o", "r", "i", "d", "a" >>,
     << "F", "r", "e", "e", "d", "o", "m" >>,
     << "N", "e", "w", " ", "E", "n", "g", "l", "a", "n", "d" >> >>

\* the first allowed region the upper-cased text of row 1 includes, or null
detectRegionFromRow1(row1Text) ==
  LET hay == UpperText(row1Text)
      hits == { k \in 1..Len(ALLOWED_REGIONS) : includes(hay, UpperText(ALLOWED_REGIONS[k])) }
  IN  IF hits = {} THEN << >> ELSE ALLOWED_REGIONS[CHOOSE k \in hits : \A j \in hits : k <= j]

\* the region lists of the reference route, the names of uploaded workbooks
\* and the texts of row 1 of their matched sheet
DbRegionLists ==
  { << << "K", "e", "y", "s", "t", "o", "n", "e" >>, << "B", "e", "l", "t", "w", "a", "y" >> >>,
    << << "B", "e", "l", "t", "w", "a", "y" >>, << "K", "e", "y", "s", "t", "o", "n", "e" >> >>,
    << << "K", "e", "y", "s", "t", "o", "n", "e" >> >>,
    << << "T", "r", "i", " ", "S", "t", "a", "t", "e" >>, << "K", "e", "y", "s", "t", "o", "n", "e" >> >>,
    << << "T", "r", "i", " ", "S", "t", "a", "t", "e" >> >> }
WorkbookNames ==
  { << "k", "e", "y", "s", "t", "o", "n", "e", "_", "1", ".", "x", "l", "s", "x" >>,
    << "B", "e", "l", "t", "w", "a", "y", ".", "x", "l", "s", "x" >>,
    << "t", "r", "i", "-", "s", "t", "a", "t", "e", ".", "x", "l", "s", "x" >>,
    << "k", "e", "y", "s", "t", "o", "n", "e", " ", "b", "e", "l", "t", "w", "a", "y", ".", "x", "l", "s", "x" >>,
    << "r", "e", "p", "o", "r", "t", ".", "x", "l", "s", "x" >> }
Row1Texts ==
  { << >>,
    << "R", "e", "g", "i", "o", "n", ":", " ", "K", "e", "y", "s", "t", "o", "n", "e" >>,
    << "B", "E", "L", "T", "W", "A", "Y" >>,
    << "T", "r", "i", " ", "S", "t", "a", "t", "e" >>,
    << "S", "c", "o", "r", "e", "c", "a", "r", "d" >>,
    << "B", "e", "l", "t", "w", "a", "y", " ", "a", "n", "d", " ", "K", "e", "y", "s", "t", "o", "n", "e" >> }

\* the region of a workbook on both sides of a run: the region the page
\* resolves from the file name against the listed regions, and the region the
\* commit route gives the rows of the file (the expected headers hold no
\* Region column, so the payload has no Region key)
RowRegion(regions, name, row1Text) ==
  /\ LET regionDetected == detectRegionFromRow1(row1Text)
         payloadRegion == << >>
     IN call' = [fn |-> "rowRegion",
                 input |-> [regions |-> regions, name |-> name, row1Text |-> row1Text],
                 output |-> [gate |-> extractRegionFromFilename(name, BuildIndex(regions, 1, NoIndex)),
                             row |-> IF TrimText(regionDetected) # << >> THEN TrimText(regionDetected)
                                     ELSE TrimText(payloadRegion)]]
  /\ UNCHANGED << serverVars, pageVars, kpi >>

NextRowRegion ==
  /\ call = NoCall
  /\ \E regions \in DbRegionLists, name \in WorkbookNames, row1Text \in Row1Texts :
       RowRegion(regions, name, row1Text)

SpecRowRegion == InitClient /\ [][NextRowRegion]_vars

\* the region names the reference route can list, the lists of up to
\* MaxRegions of them, and the texts a file name can be
MaxRegions == 3
RegionNames == { << " " >>, RegionKb, RegionB, << "k", "b" >>, << "Z", " ", "2" >>, << "K", ".", "b" >> }
NameTexts == DropNames \cup StoredNames \cup { << >>, << "x", ".", "c", "s", "v" >> }

\* the region of a file name, against the index the page holds after the
\* regions request ended (none when the request failed or listed no region)
DetectRegion(fetchOk, regions, text) ==
  /\ LET built == BuildIndex(regions, 1, NoIndex)
         idx == IF ~fetchOk \/ Len(built.set) = 0 THEN NoIndex ELSE built
     IN call' = [fn |-> "extractRegionFromFilename",
                 input |-> [fetchOk |-> fetchOk, regions |-> regions, text |-> text],
                 output |-> extractRegionFromFilename(text, idx)]
  /\ UNCHANGED << serverVars, pageVars, kpi >>

NextRegion ==
  /\ call = NoCall
  /\ \E fetchOk \in BOOLEAN, text \in NameTexts,
        regions \in UNION { [1..n -> RegionNames] : n \in 0..MaxRegions } :
       DetectRegion(fetchOk, regions, text)

SpecRegion == InitClient /\ [][NextRegion]_vars

\* the anchor rule applied to every calendar date, to the empty string and
\* to text that is no date
ApplyFiscalMonthAnchor(ref) ==
  /\ call' = [fn |-> "fiscalMonthAnchor", input |-> ref, output |-> fiscalMonthAnchor(ref)]
  /\ UNCHANGED << serverVars, pageVars, kpi >>

NextAnchor == \E ref \in CalendarDates \cup { EmptyRef, BadRef } : ApplyFiscalMonthAnchor(ref)

SpecAnchor == InitClient /\ [][NextAnchor]_vars

(* ============================== claims ================================= *)
\* handler p returns a response in this step: it ends a run, or it answers
\* a request at once
Returns(p) ==
  /\ inv'[p].pc = "idle"
  /\ inv[p].pc # "idle" \/ (nCommits' # nCommits /\ inv' = inv)

\* handler p returns the success response of a finalized commit
CommitSucceeds(p) == Returns(p) /\ lastResp'.code = 200

NoFault(objs) == [ n \in { objs[k].name : k \in 1..Len(objs) } |-> "none" ]

\* the rows one undisturbed Commit run of upload set u extracts for batch b
ExtractedRows(b, u) ==
  ParseFiles(b, AnchorOf(u), u, UploadedFiles(u), NoFault(UploadedFiles(u)), 1,
             [dbRows |-> << >>, results |-> << >>, store |-> {}, threw |-> FALSE]).dbRows

VersionById(id) == { rubricVersions[k] : k \in { j \in 1..Len(rubricVersions) : rubricVersions[j].id = id } }

ActiveAnchorsUpTo(M) ==
  { rubricVersions[k].fiscal_month_anchor :
      k \in { j \in 1..Len(rubricVersions) :
                rubricVersions[j].active /\ rubricVersions[j].fiscal_month_anchor <= M } }

\* C1: in every state a batch whose status is committed has its pin row and
\* all its extracted rows in the store, and a reader that found a committed
\* batch finds its pin
C1_CommittedIsPinned ==
  /\ \A b \in batches :
       b.status = "committed" =>
         /\ PinsOfBatch(b.batch_id) # {}
         /\ LET rows == ExtractedRows(b.batch_id, b.upload_set_id)
            IN \A k \in 1..Len(rows) : CopiesIn(rows[k], rawRows) >= 1
  /\ rd.pc \in { "rows", "done" } => rd.pin # NoId

\* C2: when a Commit succeeds, exactly one pin row exists for its batch and
\* the pinned version's anchor is <= the batch's month M and is the largest
\* anchor <= M among the active versions
C2_PinIsMaximalActive ==
  [][ \A p \in Procs :
        (CommitSucceeds(p) /\ lastResp'.ok) =>
          LET M == inv[p].fma
              P == { x \in pins' : x.batch_id = lastResp'.batch_id }
          IN /\ Cardinality(P) = 1
             /\ \A x \in P : \E v \in VersionById(x.rubric_version_id) :
                  /\ v.fiscal_month_anchor <= M
                  /\ ActiveAnchorsUpTo(M) # {}
                  /\ v.fiscal_month_anchor = MaxOf(ActiveAnchorsUpTo(M)) ]_vars

\* C3: a Commit that finds no rubric version with anchor <= its month, or no
\* settings row, returns an error at that step, writes neither the batch
\* table nor the pin table, and leaves its batch in status committing
C3_PinFailureBlocksCommit ==
  [][ \A p \in Procs :
        ( /\ inv'[p] # inv[p]
          /\ \/ inv[p].pc = "rubric" /\ RubricQuery(inv[p].fma) = << >>
             \/ inv[p].pc = "settings" /\ settingsRows = {} )
        => /\ Returns(p)
           /\ lastResp'.code = 500 /\ ~lastResp'.ok
           /\ batches' = batches /\ pins' = pins
           /\ \A b \in batches' : b.batch_id = inv[p].batch_id => b.status = "committing" ]_vars

C3_Witness ==
  /\ lastResp.error = "Missing effective rubric"
  /\ \E b \in BatchOf(lastResp.u) : b.status = "committing" /\ RowCount(b.batch_id) > 0

C4_Unique ==
  /\ \A b1, b2 \in batches : b1.upload_set_id = b2.upload_set_id => b1 = b2
  /\ \A p \in Procs : inv[p].pc # "idle" =>
       \E b \in BatchOf(inv[p].u) : b.batch_id = inv[p].batch_id
  /\ lastResp.code = 200 => \E b \in BatchOf(lastResp.u) : b.batch_id = lastResp.batch_id

C4_Stable ==
  \A b \in batches : \E c \in batches' : c.batch_id = b.batch_id /\ c.upload_set_id = b.upload_set_id

\* C4: there is at most one batch row per upload_set_id, every running or
\* answered Commit of an upload set holds the batch_id of that row, and a
\* batch row never changes its batch_id or upload_set_id
C4_IdempotentBatchIdentity == []C4_Unique /\ [][C4_Stable]_vars

C4_Witness ==
  \E p, q \in Procs : p # q /\ inv[p].pc # "idle" /\ inv[q].pc # "idle" /\ inv[p].u = inv[q].u

\* every rubric version is active, so that the pinned version is in force
AllActive == \A k \in 1..Len(rubricVersions) : rubricVersions[k].active

\* C5: when a Commit finalizes batch B2 as committed, every row in the store
\* that belongs to a committed batch of the same month and has a region of
\* B2's rows is a row of B2
C5_HousekeepingExclusive ==
  [][ \A p \in Procs :
        (CommitSucceeds(p) /\ lastResp'.ok /\ AllActive) =>
          LET b2 == lastResp'.batch_id
              M == inv[p].fma
              R == { r.region : r \in { x \in BagToSet(rawRows') : x.batch_id = b2 } }
          IN \A r \in BagToSet(rawRows') :
               ( /\ r.region \in R
                 /\ \E b \in batches' : /\ b.batch_id = r.batch_id
                                        /\ b.fiscal_month_anchor = M
                                        /\ b.status = "committed" )
               => r.batch_id = b2 ]_vars

\* the pin an undisturbed Commit of month M writes for batch b
ExpectedPin(b, M) ==
  [batch_id |-> b, fiscal_month_anchor |-> M,
   rubric_version_id |-> RubricQuery(M)[1].id, settings_pinned_at |-> MaxOf(settingsRows)]

\* C6: with storage and rule tables unchanged, every clean Commit of an
\* upload set that starts with nothing committed, the first one and the one
\* after Commit and Undo alike, leaves the same number of rows and the same
\* pin for the batch
C6_UndoReversible ==
  [][ \A p \in Procs :
        (CommitSucceeds(p) /\ lastResp'.ok) =>
          LET b == lastResp'.batch_id
              u == lastResp'.u
          IN /\ RowCountIn(rawRows', b) = Len(ExtractedRows(b, u))
             /\ PinsIn(pins', b) = { ExpectedPin(b, AnchorOf(u)) } ]_vars

C6_Witness ==
  /\ nCommits = 2 /\ nFaults = 0 /\ Cardinality(batches) = 1
  /\ inv[1].pc = "idle" /\ lastResp.code = 200 /\ lastResp.ok
  /\ RowCount(lastResp.batch_id) > 0 /\ PinsOfBatch(lastResp.batch_id) # {}

\* a step of the undo route: no Commit handler moves and no request is taken
UndoStep == inv' = inv /\ nCommits' = nCommits

C8_CleanSlateRetry ==
  [][ \A p \in Procs :
        (CommitSucceeds(p) /\ AllActive) => RowCountIn(rawRows', lastResp'.batch_id) = Len(inv[p].dbRows) ]_vars

\* the parse request of the running pipeline is answered with a parse output
\* in this step
ParseAnswered == run.pc = "parse" /\ run'.pc # "parse" /\ parseResp' # NoParse

\* the files of a parse output that fail the header match, and those whose
\* name contains no region name of the loaded index
HeaderBad(parsed) == { k \in 1..Len(parsed) : ~parsed[k].headerMatch }
RegionBad(parsed) ==
  { k \in 1..Len(parsed) :
      \A j \in 1..Len(regionIndex.set) :
        ~includes(normalizeForMatch(parsed[k].file), regionIndex.set[j]) }
HeaderBadNames(parsed) ==
  [ k \in 1..Len(SelectSeq(parsed, LAMBDA f : ~f.headerMatch)) |->
      SelectSeq(parsed, LAMBDA f : ~f.headerMatch)[k].file ]

\* C9: when the parse output holds a file failing the header match and a file
\* whose region is not resolved, the validate step ends as fail, the error is
\* the header mismatch listing the header-failing files, and no Commit
\* request is sent
C9_HeaderFailPrecedes ==
  [][ ( /\ ParseAnswered
        /\ HeaderBad(parseResp'.files) # {}
        /\ RegionBad(parseResp'.files) # {} )
      => /\ pipeline'.validate = "fail"
         /\ err'.text = "Validation failed: header mismatch in: "
         /\ err'.items = HeaderBadNames(parseResp'.files)
         /\ run'.pc = "idle"
         /\ pipeline'.commit = "idle"
         /\ commitResp' = NoCommit ]_vars

C9_Witness ==
  /\ run.pc = "idle" /\ pipeline.validate = "fail"
  /\ \E i, j \in 1..Len(parseResp.files) :
       /\ i # j
       /\ i \in HeaderBad(parseResp.files) /\ i \notin RegionBad(parseResp.files)
       /\ j \in RegionBad(parseResp.files) /\ j \notin HeaderBad(parseResp.files)

\* C10: the step that receives a parse output sends the Commit request if
\* and only if every file is header-ok and region-ok, a Commit request is
\* sent in no other step of the pipeline, and a region failure without a
\* header failure ends the validate step as warn with no Commit request
C10_CommitIffGreen ==
  [][ /\ ParseAnswered =>
           /\ run'.pc = "commit" <=>
                (HeaderBad(parseResp'.files) = {} /\ RegionBad(parseResp'.files) = {})
           /\ (RegionBad(parseResp'.files) # {} /\ HeaderBad(parseResp'.files) = {}) =>
                /\ pipeline'.validate = "warn"
                /\ run'.pc = "idle"
                /\ pipeline'.commit = "idle"
      /\ (run'.pc = "commit" /\ run.pc # "commit") => ParseAnswered ]_vars

C10_Witness ==
  /\ run.pc = "commit" /\ pipeline.validate = "ok" /\ pipeline.commit = "running"
  /\ Len(parseResp.files) = 2
  /\ parseResp.files[1].file # parseResp.files[2].file

\* C11: while no region index is loaded (the regions request is pending, or
\* it failed or returned no usable region), processing cannot start, no run
\* and so no Commit request exists, and region matching yields no region;
\* once the load has ended without an index the error is recorded
C11_NoRegionsNoCommit ==
  regionIndex = NoIndex =>
    /\ \A today \in RefDates : ~canProcess(today)
    /\ run = RunIdle /\ busy = "" /\ err = NoErr
    /\ pipeline = NoPipeline /\ commitResp = NoCommit
    /\ \A n \in StoredNames \cup DropNames :
         /\ matchRegionFromText(n, regionIndex) = NoRegion
         /\ extractRegionFromFilename(n, regionIndex) = NoRegion
    /\ loadRegions = "done" => regionsErr # NoErr

C11_Witness ==
  /\ loadRegions = "done"
  /\ regionsErr.text = "Regions list empty from /api/ref/regions"
  /\ Len(files) > 0 /\ fiscalRefDate.kind = "date"

\* C12: the status of a batch row only moves forward, from committing to
\* committed, committed_with_errors or failed, and only an Undo moves a batch
\* back; in particular no step of a Commit invocation moves a batch whose
\* status is committed back to committing
C12_CommittedNotReopened ==
  [][ \A b \in batches : \A c \in batches' :
        (c.batch_id = b.batch_id /\ b.status = "committed" /\ ~UndoStep)
          => c.status # "committing" ]_vars

\* C13: a Commit whose chunk insert fails returns at that step an error
\* response (500, ok false, a DB insert message), writes neither the batch
\* table nor the pin table, and leaves its batch in status committing; and a
\* Commit that reports success has inserted all the rows it reports
C13_InsertFailure ==
  \A p \in Procs :
    (inv'[p] # inv[p] /\ inv[p].pc = "insert" /\ rawRows' = rawRows)
      => /\ Returns(p)
         /\ lastResp'.code = 500 /\ ~lastResp'.ok /\ lastResp'.error = "DB insert failed"
         /\ batches' = batches /\ pins' = pins
         /\ \A b \in batches' : b.batch_id = inv[p].batch_id => b.status = "committing"

C13_AllRowsIn == lastResp.code = 200 => RowCount(lastResp.batch_id) >= lastResp.rows

C13_InsertFailureIsError == []C13_AllRowsIn /\ [][C13_InsertFailure]_vars

\* the second chunk of the first Commit failed after the first was inserted
C13_Witness ==
  /\ nCommits = 1
  /\ lastResp.error = "DB insert failed"
  /\ \E b \in BatchOf(lastResp.u) :
       b.status = "committing" /\ RowCount(b.batch_id) > 0 /\ PinsOfBatch(b.batch_id) = {}

\* a file with a structural error: not .xlsx, not loadable, or no sheet with
\* the expected headers
Structural(f) == ~f.xlsx \/ ~f.loadable \/ ~f.headerMatch

\* C14: when the per-file loop of a Commit meets a file with a structural
\* error, the invocation goes on: the loop ends with one result per listed
\* file, a failure entry for each such file, and the rows of every sibling
\* file whose download succeeded
C14_StructuralErrorIsPerFile ==
  [][ \A p \in Procs :
        LET objects == StorageList(inv[p].fma, inv[p].u)
        IN ( /\ inv[p].pc = "parse" /\ inv'[p] # inv[p]
             /\ lastResp'.error # "list failed"
             /\ \E k \in 1..Len(objects) : Structural(objects[k]) )
           => /\ ~Returns(p)
              /\ Len(inv'[p].results) = Len(objects)
              /\ \A k \in 1..Len(objects) :
                   LET r == inv'[p].results[k]
                   IN /\ r.file = objects[k].name
                      /\ Structural(objects[k]) => ~r.ok
                      /\ (~Structural(objects[k]) /\ r.error # "download")
                           => \E j \in 1..Len(inv'[p].dbRows) :
                                inv'[p].dbRows[j].source_file
                                  = StoragePath(inv[p].fma, inv[p].u, objects[k].name) ]_vars

\* C15: a Commit that finalizes sets the batch status to committed exactly
\* when no file failed, and to committed_with_errors only when at least one
\* file failed and the invocation inserted at least one row
C15_FinalStatus ==
  [][ \A p \in Procs :
        CommitSucceeds(p) =>
          \A b \in batches' :
            b.batch_id = inv[p].batch_id =>
              /\ b.status \in { "committed", "committed_with_errors" }
              /\ b.status = "committed" <=> CountFailed(inv[p].results) = 0
              /\ b.status = "committed_with_errors"
                   => (CountFailed(inv[p].results) >= 1 /\ Len(inv[p].dbRows) >= 1) ]_vars

\* the rule tables change in this step
RuleEdit == rubricVersions' # rubricVersions \/ settingsRows' # settingsRows

\* handler p writes the pin row of its batch in this step
WritesPin(p) == inv[p].pc = "pin" /\ inv'[p].pc = "status"

\* C16: an existing pin row changes only when a Commit of its own batch
\* writes the pin again, and goes away only in an Undo of its batch; edits
\* of the rubric versions and of the settings, and Commits of other
\* batches, leave every pin as it is, and a pin row appears only in the pin
\* step of a Commit of its batch
C16_PinFrame ==
  [][ /\ RuleEdit => pins' = pins
      /\ \A x \in pins :
           x \notin pins' =>
             \/ \E p \in Procs : WritesPin(p) /\ inv[p].batch_id = x.batch_id
             \/ /\ UndoStep /\ ~RuleEdit
                /\ PinsIn(pins', x.batch_id) = {}
                /\ RowCountIn(rawRows', x.batch_id) = 0
      /\ \A y \in pins' \ pins :
           \E p \in Procs : WritesPin(p) /\ inv[p].batch_id = y.batch_id ]_vars

\* two batches are pinned, and the rubric query for the month of one of
\* them now answers another version than the pinned one
C16_Witness ==
  /\ Cardinality(pins) = 2
  /\ \E x \in pins :
       /\ \E b \in batches : b.batch_id = x.batch_id /\ b.status = "committed"
       /\ RubricQuery(x.fiscal_month_anchor) # << >>
       /\ RubricQuery(x.fiscal_month_anchor)[1].id # x.rubric_version_id
       /\ MaxOf(settingsRows) # x.settings_pinned_at

\* C17: the rubric version route, asked for fiscal month M, answers the
\* active version with the latest anchor <= M (none when there is no such
\* version), which is also the version the Commit of a batch of month M pins
C17_ResolutionIsEffective ==
  (call.fn = "rubric/version" /\ call.output.ok /\ call.input[1] # NoAnchor) =>
    LET M == call.input[1]
        id == call.output.version
    IN /\ ActiveAnchorsUpTo(M) = {} => id = NoId
       /\ ActiveAnchorsUpTo(M) # {} =>
            \E v \in VersionById(id) :
              v.active /\ v.fiscal_month_anchor = MaxOf(ActiveAnchorsUpTo(M))
       /\ RubricQuery(M) # << >> => id = RubricQuery(M)[1].id
       /\ \A x \in pins : x.fiscal_month_anchor = M => x.rubric_version_id = id

\* C18: for a calendar date the anchor is day 21 of the same month when the
\* day is at most 21, and day 21 of the next month from day 22 on, which is
\* January of the next year for a date in December; for text that is no date
\* the result is null
C18_AnchorRule ==
  call.fn = "fiscalMonthAnchor" =>
    LET ref == call.input
        a == call.output
    IN IF ref.kind # "date" THEN a = NoMonth
       ELSE /\ a.d = 21
            /\ ref.d <= 21 => (a.y = ref.y /\ a.m = ref.m)
            /\ (ref.d >= 22 /\ ref.m # 12) => (a.y = ref.y /\ a.m = ref.m + 1)
            /\ (ref.d >= 22 /\ ref.m = 12) => (a.y = ref.y + 1 /\ a.m = 1)

C18_Witness ==
  /\ call.fn = "fiscalMonthAnchor"
  /\ call.input.kind = "date" /\ call.input.m = 12 /\ call.input.d = 22
  /\ call.output = [y |-> call.input.y + 1, m |-> 1, d |-> 21]

\* two header lists have the same length and agree position by position
\* after trim, lowercase and whitespace collapse
SameHeaders(h1, h2) ==
  /\ Len(h1) = Len(h2)
  /\ \A k \in 1..Len(h1) : normalizeForFingerprint(h1[k]) = normalizeForFingerprint(h2[k])

\* C19: the fingerprint of a sheet's row-2 header list equals the expected
\* fingerprint, and the sheet is selected, exactly when the list has the
\* length of the expected list and agrees with it position by position
\* after trim, lowercase and whitespace collapse
C19_FingerprintIsListEquality ==
  call.fn = "matchSheet" =>
    /\ (fingerprint(call.output.headers) = fingerprint(EXPECTED_HEADERS))
         <=> SameHeaders(call.output.headers, EXPECTED_HEADERS)
    /\ call.output.matched => SameHeaders(call.output.headers, EXPECTED_HEADERS)

\* the signature contains one of the footer keywords, in any case
HasKeyword(sig) == \E pat \in FooterPatterns : includes(UpperText(sig), pat)

\* C20: in the row loop of the worksheet extractor a row that carries a tech
\* id is dropped exactly when its signature is empty or contains one of the
\* footer keywords in any case; the number of its cells or words plays no
\* part there, and every other such row is kept as a data row
C20_FooterExclusion ==
  (call.fn = "extractRow" /\ Len(call.input) > 0 /\ TrimText(call.input[1]) # << >>) =>
    (call.output.verdict = "data"
       <=> ~(call.output.joined = << >> \/ HasKeyword(call.output.joined)))

\* C21: every row of the row store has a tech id that is neither empty nor
\* white space, and the row store gains rows only in the insert step of a
\* Commit
C21_NonEmpty == \A r \in BagToSet(rawRows) : r.tech_id \notin { "", " " }

C21_OnlyCommitInserts ==
  (\E r \in BagToSet(rawRows') : CopiesIn(r, rawRows') > CopiesIn(r, rawRows))
    => \E p \in Procs : inv[p].pc = "insert" /\ inv'[p] # inv[p]

C21_TechIdNonEmpty == []C21_NonEmpty /\ [][C21_OnlyCommitInserts]_vars

\* the file whose second and third rows carry no tech id is committed
C21_Witness ==
  \E b \in batches :
    /\ b.upload_set_id = 2 /\ b.status = "committed"
    /\ RowCount(b.batch_id) = 1

\* the stored object of that name under the commit prefix of upload set u
Stored(fma, u, name) == { a \in artifacts' : a.fma = fma /\ a.u = u /\ a.name = name }

\* C22: a Commit that finalizes after a JSONL or manifest write failed has
\* inserted the rows of every parsed file and shows the failure: each file
\* whose result carries no warning has its JSONL object in storage, and the
\* manifest the response names is in storage
C22_ArtifactFailureVisible ==
  [][ \A p \in Procs :
        CommitSucceeds(p) =>
          /\ RowCountIn(rawRows', inv[p].batch_id) >= Len(inv[p].dbRows)
          /\ \A k \in 1..Len(inv[p].results) :
               inv[p].results[k].ok
                 => Stored(inv[p].fma, inv[p].u, inv[p].results[k].file \o ".jsonl") # {}
          /\ Stored(inv[p].fma, inv[p].u, "manifest.json") # {} ]_vars

\* C23: a Commit request goes past the entry of the handler only with an
\* upload set id and a well-formed anchor; a request without them is
\* answered at the entry with a 400 and changes neither the batch table, the
\* row store, the pin table nor the storage
C23_BadInputRejected ==
  [][ \A p \in Procs :
        (inv[p].pc = "idle" /\ nCommits' # nCommits) =>
          /\ inv'[p].pc # "idle" => (inv'[p].u # 0 /\ inv'[p].fma \in Months)
          /\ (inv'[p].pc = "idle" /\ lastResp'.code = 400) =>
               /\ batches' = batches /\ rawRows' = rawRows
               /\ pins' = pins /\ artifacts' = artifacts
          /\ \A b \in batches' : b.fiscal_month_anchor \in Months ]_vars

\* the authoritative regions of a list: the entries with a name
Authoritative(regions) ==
  SelectSeq(regions, LAMBDA r : trim(r) # << >> /\ normalizeForMatch(trim(r)) # << >>)

\* C24: the region detector answers null when the region list is not
\* available; otherwise it answers the display name of the first region of
\* the list, in list order, whose normalized name is a substring of the
\* normalized text, and null when there is none; the answer is always null
\* or a name of the list
C24_FirstMatchWins ==
  call.fn = "extractRegionFromFilename" =>
    LET auth == Authoritative(call.input.regions)
        hay == normalizeForMatch(call.input.text)
        hits == { k \in 1..Len(auth) : includes(hay, normalizeForMatch(auth[k])) }
    IN /\ (~call.input.fetchOk \/ Len(auth) = 0) => call.output = NoRegion
       /\ (call.input.fetchOk /\ hits = {}) => call.output = NoRegion
       /\ (call.input.fetchOk /\ hits # {})
            => call.output = trim(auth[CHOOSE k \in hits : \A j \in hits : k <= j])
       /\ call.output # NoRegion => \E k \in 1..Len(auth) : call.output = trim(auth[k])

\* two listed regions match the text and two spellings share a normalized
\* name: the first listed spelling is the answer
C24_Witness ==
  /\ call.fn = "extractRegionFromFilename"
  /\ call.input.regions = << RegionB, RegionKb, << "k", "b" >> >>
  /\ call.input.text = FileBKb
  /\ call.input.fetchOk
  /\ call.output = RegionB

\* C25: for a data row of a matched sheet, every header of row 2 maps, in the
\* payload, to the trimmed text of the cell of the data row in the header's
\* own column, also when row 2 or the data row holds empty cells
C25_PayloadByColumn ==
  (call.fn = "buildPayload" /\ call.output.matched) =>
    \A c \in 1..Len(call.input.row2) :
      TrimText(call.input.row2[c]) # << >> =>
        call.output.payload[TrimText(call.input.row2[c])]
          = IF c <= Len(call.input.vals) THEN TrimText(call.input.vals[c]) ELSE << >>

\* C26: when two commits for different batches of the same region and month
\* have both finished and answered ok, the live rows of that region and month
\* belong to exactly one of the two batches
C26_OneLiveBatch ==
  \A b1, b2 \in KpiBatchIds :
    ( /\ b1 # b2
      /\ KpiBatch(b1).region = KpiBatch(b2).region
      /\ KpiBatch(b1).fiscal_month_anchor = KpiBatch(b2).fiscal_month_anchor
      /\ \A b \in KpiBatchIds : kpi.pc[b] = "idle"
      /\ kpi.last[b1] = 200 /\ kpi.last[b2] = 200 ) =>
      Cardinality({ r.batch_id : r \in { x \in kpi.master :
                      /\ x.region = KpiBatch(b1).region
                      /\ x.fiscal_month_anchor = KpiBatch(b1).fiscal_month_anchor } }) = 1

\* C27: in a pipeline run the stages are invoked in the order upload, parse,
\* validate, commit, each only after the one before it ended ok: a stage that
\* has left idle has all earlier stages ok, the commit request is in flight
\* only with upload, parse and validate ok, and while a request of the run is
\* in flight no stage has failed
C27_StagesInOrder ==
  /\ pipeline.parse # "idle" => pipeline.upload = "ok"
  /\ pipeline.validate # "idle" => pipeline.parse = "ok"
  /\ pipeline.commit # "idle" => pipeline.validate = "ok"
  /\ pipeline.commit = "running" =>
       pipeline.upload = "ok" /\ pipeline.parse = "ok" /\ pipeline.validate = "ok"
  /\ run.pc = "upload" => pipeline = [NoPipeline EXCEPT !.upload = "running"]
  /\ run.pc = "parse" => pipeline = [NoPipeline EXCEPT !.upload = "ok", !.parse = "running"]
  /\ run.pc = "commit" =>
       pipeline = [upload |-> "ok", parse |-> "ok", validate |-> "ok", commit |-> "running"]
  /\ (\E k \in DOMAIN pipeline : pipeline[k] \in { "fail", "warn" })
       => run.pc \notin { "upload", "parse", "commit" }

\* a run whose commit request is in flight
C27_Witness ==
  /\ run.pc = "commit"
  /\ pipeline.commit = "running"
  /\ Len(parseResp.files) > 0

\* the steps of a run in their order, and a pipeline stopped at one step:
\* the steps before it ok, the step in one of the given states, the steps
\* after it idle
StepOrder == << "upload", "parse", "validate", "commit" >>
StoppedAt(i, states) ==
  /\ pipeline[StepOrder[i]] \in states
  /\ \A j \in 1..Len(StepOrder) : j < i => pipeline[StepOrder[j]] = "ok"
  /\ \A j \in 1..Len(StepOrder) : j > i => pipeline[StepOrder[j]] = "idle"

\* busy is set exactly while a run or an undo is in progress (so neither can
\* start while busy is set), and no step is running once it has ended
BusyWhileRunning ==
  /\ (run.pc = "idle") <=> (busy = "")
  /\ run.pc = "idle" => \A k \in DOMAIN pipeline : pipeline[k] # "running"

\* C28 (as stated): every run and every undo ends with busy cleared and no
\* step running; after a failure the step that was running is fail and all
\* later steps are idle; while busy is set no run and no undo can start
C28_FailedStepIsFail ==
  /\ BusyWhileRunning
  /\ (run.pc = "idle" /\ err # NoErr) =>
       \/ pipeline = NoPipeline
       \/ \E i \in 1..Len(StepOrder) : StoppedAt(i, { "fail" })

\* C28 (amended): the same, where the step that was running is fail, or warn
\* when it is the validate step and the gate stopped the run because the
\* region of a file was not found
C28_FailedStepIsFailOrWarn ==
  /\ BusyWhileRunning
  /\ (run.pc = "idle" /\ err # NoErr) =>
       \/ pipeline = NoPipeline
       \/ \E i \in 1..Len(StepOrder) : StoppedAt(i, { "fail" })
       \/ /\ StoppedAt(3, { "warn" })
          /\ \E k \in 1..Len(parseResp.files) :
               extractRegionFromFilename(parseResp.files[k].file, regionIndex) = NoRegion

\* a run stopped by the gate with validate = warn, and busy cleared
C28_Witness ==
  /\ run.pc = "idle"
  /\ busy = ""
  /\ err # NoErr
  /\ pipeline = [upload |-> "ok", parse |-> "ok", validate |-> "warn", commit |-> "idle"]

\* the batch of upload set u has been finalized by the commit route
Finalized(u) == \E b \in BatchOf(u) : b.status \in { "committed", "committed_with_errors" }

\* C29: when the commit request of a pipeline run is answered, the page
\* marks the commit step fail only if the batch was not finalized, and
\* whenever the batch was finalized (committed or committed_with_errors) the
\* commit step is ok and Undo is enabled
C29_FailOnlyIfNotFinalized ==
  [][ (run.pc = "commit" /\ run'.pc = "idle") =>
        /\ pipeline'.commit = "fail" => ~Finalized(run.upload_set_id)
        /\ Finalized(run.upload_set_id) => (pipeline'.commit = "ok" /\ canUndo') ]_vars

\* C30: for a file the validation gate found green, the region of every row
\* the commit inserts for the file is not null, equals the region the gate
\* resolved for the file, and is one of the listed regions
C30_RowRegionIsGateRegion ==
  (call.fn = "rowRegion" /\ call.output.gate # NoRegion) =>
    /\ call.output.row # << >>
    /\ call.output.row = call.output.gate
    /\ \E k \in 1..Len(call.input.regions) : call.output.row = trim(call.input.regions[k])

====
